---- MODULE Spec2Model ----
(***************************************************************************)
(* A model of go-fitz, the Go binding of the MuPDF fitz library, in its    *)
(* purego variant (src/fitz_cgo_extlib_pkgconfig.go, the part built with   *)
(* "!cgo || nocgo").  One Document is opened by New, NewFromMemory or      *)
(* NewFromReader, then used by several goroutines, and closed by Close.    *)
(*                                                                         *)
(* The native library is not part of the repository.  A native constructor *)
(* whose result the Go code tests against nil may return nil; one whose    *)
(* result the Go code never tests returns a handle.  A native drop of a    *)
(* nil handle does nothing.                                                *)
(***************************************************************************)
EXTENDS Integers, Sequences, FiniteSets, TLC

\* ------------------------------------------------------------------ bounds

\* Number of goroutines that use the Document.
NumThreads == 2
\* Largest page count of a document.
MaxPages == 1

Threads == 1..NumThreads
NoThread == 0

\* Page numbers a caller passes: a negative one, the first page, and one that is
\* the page count of the largest document (past the end of every document).
PageArgs == {-1, 0, MaxPages}

NULL == "NULL"

\* ------------------------------------------------------------------ errors

ErrNoSuchFile == "fitz: no such file"
ErrCreateContext == "fitz: cannot create context"
ErrOpenDocument == "fitz: cannot open document"
ErrEmptyBytes == "fitz: cannot send empty bytes"
ErrOpenMemory == "fitz: cannot open memory"
ErrLoadPage == "fitz: cannot load page"
ErrPageMissing == "fitz: page missing"
ErrCreatePixmap == "fitz: cannot create pixmap"
ErrPixmapSamples == "fitz: cannot get pixmap samples"
ErrNeedsPassword == "fitz: document needs password"
ErrLoadOutline == "fitz: cannot load outline"
\* An error that is not one of the package's: filepath.Abs or the reader failed.
ErrForeign == "foreign error"
NoErr == "nil"

\* ------------------------------------------------------------------ helpers

Reverse(s) == [i \in 1..Len(s) |-> s[Len(s) + 1 - i]]
Range(s) == {s[i] : i \in 1..Len(s)}
Last(s) == s[Len(s)]
Front(s) == SubSeq(s, 1, Len(s) - 1)

\* ------------------------------------------------------------------ byte slices

\* A Go []byte: a nil slice and an empty slice both have length 0.
NilSlice == [isNil |-> TRUE, bytes |-> <<>>]
Slice(bs) == [isNil |-> FALSE, bytes |-> bs]
GoLen(b) == Len(b.bytes)

\* b[i] for a 0-based index i.
At(b, i) == b[i + 1]

\* ------------------------------------------------------------------ format sniffer

isBMP(b) == At(b, 0) = 66 /\ At(b, 1) = 77

isGIF(b) == At(b, 0) = 71 /\ At(b, 1) = 73 /\ At(b, 2) = 70 /\ At(b, 3) = 56

isJBIG2(b) ==
    /\ At(b, 0) = 151 /\ At(b, 1) = 74 /\ At(b, 2) = 66 /\ At(b, 3) = 50
    /\ At(b, 4) = 13 /\ At(b, 5) = 10 /\ At(b, 6) = 26 /\ At(b, 7) = 10

isJPEG(b) == At(b, 0) = 255 /\ At(b, 1) = 216 /\ At(b, 2) = 255

isJPEG2000(b) ==
    IF At(b, 0) = 255 /\ At(b, 1) = 79 /\ At(b, 2) = 255 /\ At(b, 3) = 81
    THEN TRUE
    ELSE /\ At(b, 0) = 0 /\ At(b, 1) = 0 /\ At(b, 2) = 0 /\ At(b, 3) = 12
         /\ At(b, 4) = 106 /\ At(b, 5) = 80 /\ At(b, 6) = 32 /\ At(b, 7) = 32
         /\ At(b, 8) = 13 /\ At(b, 9) = 10 /\ At(b, 10) = 135 /\ At(b, 11) = 10

isJPEGXR(b) == At(b, 0) = 73 /\ At(b, 1) = 73 /\ At(b, 2) = 188

isPAM(b) == At(b, 0) = 80 /\ At(b, 1) = 55 /\ At(b, 2) = 10

\* Mutant: isPBM without the binary variant P4.
isPBMPlainOnly(b) == At(b, 0) = 80 /\ At(b, 1) = 49 /\ At(b, 2) = 10

isPBM(b) == At(b, 0) = 80 /\ (At(b, 1) = 49 \/ At(b, 1) = 52) /\ At(b, 2) = 10

isPFM(b) == At(b, 0) = 80 /\ (At(b, 1) = 70 \/ At(b, 1) = 102) /\ At(b, 2) = 10

isPGM(b) == At(b, 0) = 80 /\ (At(b, 1) = 50 \/ At(b, 1) = 53) /\ At(b, 2) = 10

isPPM(b) == At(b, 0) = 80 /\ (At(b, 1) = 51 \/ At(b, 1) = 54) /\ At(b, 2) = 10

isPNG(b) ==
    /\ At(b, 0) = 137 /\ At(b, 1) = 80 /\ At(b, 2) = 78 /\ At(b, 3) = 71
    /\ At(b, 4) = 13 /\ At(b, 5) = 10 /\ At(b, 6) = 26 /\ At(b, 7) = 10

isTIFF(b) ==
    \/ At(b, 0) = 73 /\ At(b, 1) = 73 /\ At(b, 2) = 42 /\ At(b, 3) = 0
    \/ At(b, 0) = 77 /\ At(b, 1) = 77 /\ At(b, 2) = 0 /\ At(b, 3) = 42

isPDF(b) == At(b, 0) = 37 /\ At(b, 1) = 80 /\ At(b, 2) = 68 /\ At(b, 3) = 70

isPSD(b) == At(b, 0) = 56 /\ At(b, 1) = 66 /\ At(b, 2) = 80 /\ At(b, 3) = 83

isZIP(b) == At(b, 0) = 80 /\ At(b, 1) = 75 /\ At(b, 2) = 3 /\ At(b, 3) = 4

\* "mimetypeapplication/epub+zip"
EpubMarker == <<109, 105, 109, 101, 116, 121, 112, 101, 97, 112, 112, 108, 105, 99, 97, 116, 105, 111, 110, 47, 101, 112, 117, 98, 43, 122, 105, 112>>
\* "[Content_Types].xml"
XpsMarker == <<91, 67, 111, 110, 116, 101, 110, 116, 95, 84, 121, 112, 101, 115, 93, 46, 120, 109, 108>>

\* The bytes of b from offset 30 on equal the marker; b has at least 64 bytes.
isEPUB(b) == \A i \in 1..Len(EpubMarker) : At(b, 29 + i) = EpubMarker[i]

isXPS(b) == \A i \in 1..Len(XpsMarker) : At(b, 29 + i) = XpsMarker[i]

\* "BOOKMOBI" and "TEXtREAd"
MobiMarker == <<66, 79, 79, 75, 77, 79, 66, 73>>
PalmMarker == <<84, 69, 88, 116, 82, 69, 65, 100>>

isMOBI(b) ==
    IF Len(b) < 78 THEN FALSE
    ELSE \/ \A i \in 1..8 : At(b, 59 + i) = MobiMarker[i]
         \/ \A i \in 1..8 : At(b, 59 + i) = PalmMarker[i]

\* The reader of isSVG: r.ReadByte() at cursor i fails when i is the length.
RECURSIVE ParseSVGText(_, _), ParseSVGElement(_, _), ParseSVGComment(_, _)
ParseSVGText(b, i) ==
    IF i >= Len(b) THEN FALSE
    ELSE IF At(b, i) \in {9, 10, 13, 32} THEN ParseSVGText(b, i + 1)
    ELSE IF At(b, i) = 60 THEN ParseSVGElement(b, i + 1)
    ELSE FALSE

ParseSVGElement(b, i) ==
    IF i >= Len(b) THEN FALSE
    ELSE IF At(b, i) = 33 \/ At(b, i) = 63 THEN ParseSVGComment(b, i + 1)
    ELSE IF At(b, i) # 115 THEN FALSE
    ELSE IF i + 1 >= Len(b) \/ At(b, i + 1) # 118 THEN FALSE
    ELSE IF i + 2 >= Len(b) \/ At(b, i + 2) # 103 THEN FALSE
    ELSE TRUE

ParseSVGComment(b, i) ==
    IF i >= Len(b) THEN FALSE
    ELSE IF At(b, i) = 62 THEN ParseSVGText(b, i + 1)
    ELSE ParseSVGComment(b, i + 1)

isSVG(b) ==
    IF At(b, 0) = 239 /\ At(b, 1) = 187
    THEN ParseSVGText(SubSeq(b, 3, Len(b)), 0)
    ELSE ParseSVGText(b, 0)

isXML(b) ==
    IF At(b, 0) = 60 /\ At(b, 1) = 63 /\ At(b, 2) = 120 /\ At(b, 3) = 109 /\ At(b, 4) = 108
    THEN TRUE
    ELSE /\ At(b, 0) = 239 /\ At(b, 1) = 187 /\ At(b, 2) = 191 /\ At(b, 3) = 60
         /\ At(b, 4) = 63 /\ At(b, 5) = 120 /\ At(b, 6) = 109 /\ At(b, 7) = 108

typeNone == 0
typeDocx == 1
typeXlsx == 2
typePptx == 3
typeOoxml == 4

compareBytes(slice, subSlice, startOffset) ==
    IF startOffset + Len(subSlice) > Len(slice) THEN FALSE
    ELSE \A i \in 1..Len(subSlice) : subSlice[i] = At(slice, startOffset + i - 1)

\* "word/", "ppt/", "xl/"
checkMSOoml(buf, offset) ==
    IF compareBytes(buf, <<119, 111, 114, 100, 47>>, offset) THEN [typ |-> typeDocx, ok |-> TRUE]
    ELSE IF compareBytes(buf, <<112, 112, 116, 47>>, offset) THEN [typ |-> typePptx, ok |-> TRUE]
    ELSE IF compareBytes(buf, <<120, 108, 47>>, offset) THEN [typ |-> typeXlsx, ok |-> TRUE]
    ELSE [typ |-> typeNone, ok |-> FALSE]

\* The local file header signature 'P' 'K' 03 04.
signature == <<80, 75, 3, 4>>

\* bytes.Index(buf[start:end], signature): the first match, relative to start, or -1.
search(buf, start, rangeNum) ==
    LET length == Len(buf)
        end == IF start + rangeNum > length THEN length ELSE start + rangeNum
        hits == {k \in 0..(end - start - 4) :
                    \A j \in 1..4 : At(buf, start + k + j - 1) = signature[j]}
    IN  IF start >= end THEN -1
        ELSE IF hits = {} THEN -1
        ELSE CHOOSE k \in hits : \A m \in hits : k <= m

\* binary.LittleEndian.Uint32(buf[18:22]) + 49, in uint32 arithmetic, as an int of
\* 64 bits.  TLC's integers have 32 bits: a sum of 2^24 or more, which is past the
\* end of every buffer here, is kept as 2^24 plus its low 24 bits.
Uint32Plus49(buf) ==
    LET low == At(buf, 18) + 256 * At(buf, 19) + 65536 * At(buf, 20) + 49
        high == (At(buf, 21) + (low \div 16777216)) % 256
    IN  IF high = 0 THEN low % 16777216 ELSE 16777216 + (low % 16777216)

notFound == [typ |-> typeNone, ok |-> FALSE]

msooxml(buf) ==
    LET first == checkMSOoml(buf, 30) IN
    IF first.ok THEN first
    ELSE IF /\ ~compareBytes(buf, XpsMarker, 30)
            /\ ~compareBytes(buf, <<95, 114, 101, 108, 115, 47, 46, 114, 101, 108, 115>>, 30)
            /\ ~compareBytes(buf, <<100, 111, 99, 80, 114, 111, 112, 115>>, 30)
            /\ ~compareBytes(buf, <<95, 114, 101, 108, 115>>, 30)
    THEN notFound
    ELSE
    LET start1 == Uint32Plus49(buf)
        idx1 == search(buf, start1, 6000)
    IN  IF idx1 = -1 THEN notFound ELSE
    LET start2 == start1 + idx1 + 4 + 26
        idx2 == search(buf, start2, 6000)
    IN  IF idx2 = -1 THEN notFound ELSE
    LET start3 == start2 + idx2 + 4 + 26
        third == checkMSOoml(buf, start3)
    IN  IF third.ok THEN third ELSE
    LET start4 == start3 + 26
        idx4 == search(buf, start4, 6000)
    IN  IF idx4 = -1 THEN [typ |-> typeOoxml, ok |-> TRUE] ELSE
    LET start5 == start4 + idx4 + 4 + 26
        fourth == checkMSOoml(buf, start5)
    IN  IF fourth.ok THEN fourth ELSE [typ |-> typeOoxml, ok |-> TRUE]

\* Mutant: isDOCX passing whatever type msooxml found.
isDOCXAnyType(buf) == msooxml(buf).ok

isDOCX(buf) == LET r == msooxml(buf) IN r.ok /\ r.typ = typeDocx

isXLSX(buf) == LET r == msooxml(buf) IN r.ok /\ r.typ = typeXlsx

isPPTX(buf) == LET r == msooxml(buf) IN r.ok /\ r.typ = typePptx

\* Mutant: the first entry's EPUB and XPS markers tested before the OOXML scan.
zipContentTypeMarkersFirst(b) ==
    IF isEPUB(b) THEN "application/epub+zip"
    ELSE IF isXPS(b) THEN "application/oxps"
    ELSE IF isDOCX(b)
    THEN "application/vnd.openxmlformats-officedocument.wordprocessingml.document"
    ELSE IF isXLSX(b)
    THEN "application/vnd.openxmlformats-officedocument.spreadsheetml.sheet"
    ELSE IF isPPTX(b)
    THEN "application/vnd.openxmlformats-officedocument.presentationml.presentation"
    ELSE "application/zip"

\* The inner switch of contentType, for a buffer with the ZIP signature.
zipContentType(b) ==
    IF isDOCX(b)
    THEN "application/vnd.openxmlformats-officedocument.wordprocessingml.document"
    ELSE IF isXLSX(b)
    THEN "application/vnd.openxmlformats-officedocument.spreadsheetml.sheet"
    ELSE IF isPPTX(b)
    THEN "application/vnd.openxmlformats-officedocument.presentationml.presentation"
    ELSE IF isEPUB(b) THEN "application/epub+zip"
    ELSE IF isXPS(b) THEN "application/oxps"
    ELSE "application/zip"

\* The cases of contentType after the first, for a buffer of 8 bytes or more.
contentTypeFrom8(b) ==
    LET l == Len(b) IN
    IF isPAM(b) THEN "image/x-portable-arbitrarymap"
    ELSE IF isPBM(b) THEN "image/x-portable-bitmap"
    ELSE IF isPFM(b) THEN "image/x-portable-floatmap"
    ELSE IF isPGM(b) THEN "image/x-portable-greymap"
    ELSE IF isPPM(b) THEN "image/x-portable-pixmap"
    ELSE IF isGIF(b) THEN "image/gif"
    ELSE IF l < 16 THEN ""
    ELSE IF isBMP(b) THEN "image/bmp"
    ELSE IF isJBIG2(b) THEN "image/x-jb2"
    ELSE IF l < 32 THEN ""
    ELSE IF isTIFF(b) THEN "image/tiff"
    ELSE IF isSVG(b) THEN "image/svg+xml"
    ELSE IF l < 64 THEN ""
    ELSE IF isJPEG(b) THEN "image/jpeg"
    ELSE IF isPNG(b) THEN "image/png"
    ELSE IF isJPEG2000(b) THEN "image/jp2"
    ELSE IF isJPEGXR(b) THEN "image/vnd.ms-photo"
    ELSE IF isPDF(b) THEN "application/pdf"
    ELSE IF isPSD(b) THEN "image/vnd.adobe.photoshop"
    ELSE IF isZIP(b) THEN zipContentType(b)
    ELSE IF isXML(b) THEN "text/xml"
    ELSE IF isMOBI(b) THEN "application/x-mobipocket-ebook"
    ELSE ""

\* Mutant: the first length test written with 4, the length of the longest magic
\* number of the first group, in place of 8.
contentTypeShortCut4(b) == IF Len(b) < 4 THEN "" ELSE contentTypeFrom8(b)

\* contentType returns the document MIME type, "" when none is recognised.
contentType(b) == IF Len(b) < 8 THEN "" ELSE contentTypeFrom8(b)


\* ------------------------------------------------------------------ inputs

Pad(prefix, n) == prefix \o [i \in 1..(n - Len(prefix)) |-> 0]

\* "%PDF" in a 64-byte buffer, "GIF8" in an 8-byte buffer; then buffers that no
\* check of contentType accepts: 8 bytes, "%PDF" in only 16 bytes, 64 zero bytes.
PdfBytes == Pad(<<37, 80, 68, 70>>, 64)
GifBytes == Pad(<<71, 73, 70, 56>>, 8)
ShortBytes == Pad(<<1>>, 8)
ShortPdfBytes == Pad(<<37, 80, 68, 70>>, 16)
ZeroBytes == Pad(<<>>, 64)

\* The byte slices handed to NewFromMemory.
Slices ==
    {NilSlice} \cup
    {Slice(bs) : bs \in {<<>>, PdfBytes, GifBytes, ShortBytes, ShortPdfBytes, ZeroBytes}}

\* What io.ReadAll makes of a reader: its bytes (never a nil slice), or its error.
Readers ==
    {[bytes |-> bs, fails |-> fl] : bs \in {<<>>, PdfBytes, ShortBytes}, fl \in {FALSE}}
    \cup {[bytes |-> <<>>, fails |-> TRUE]}

\* The file named to New: whether filepath.Abs succeeds and os.Stat finds it.
Files == {[absOK |-> TRUE, exists |-> TRUE], [absOK |-> TRUE, exists |-> FALSE],
          [absOK |-> FALSE, exists |-> FALSE]}

\* What the native library answers while a document is opened: whether it creates
\* the context, the memory stream and the document, whether the document needs a
\* password, and how many pages it has.
NativeAnswers ==
    {[ctxOK |-> c, streamOK |-> s, docOK |-> d, pw |-> p, n |-> n] :
        c \in BOOLEAN, s \in BOOLEAN, d \in BOOLEAN, p \in BOOLEAN, n \in 1..MaxPages}

\* ------------------------------------------------------------------ state

VARIABLES
    f,           \* the Document struct: ctx, data, doc, stream
    mtx,         \* f.mtx: the goroutine that holds it, or NoThread
    ret,         \* what the open function returned: the pointer and the error, and
                 \* the document it gave to fzNeedsPassword
    opened,      \* the open call and its inputs
    native,      \* the native context, stream and document: none, live, dropped
    pages,       \* the number of pages of the native document
    th,          \* per goroutine: the call in progress
    closeLog,    \* the steps Close has taken, in order
    closeCalled, \* Close has been called
    aborted,     \* the native library has ended the process
    sniff,       \* a call of contentType or isSVG: its buffer, the reader, the result,
                 \* and the width of int in the build
    query,       \* a call of ToC, Links or Metadata on a native document: its result
    boot         \* the package's init: the library, its symbols, FzVersion

vars ==
    <<f, mtx, ret, opened, native, pages, th, closeLog, closeCalled, aborted, sniff,
      query, boot>>

\* The Document, its goroutines and the native handles.
docVars == <<f, mtx, ret, opened, native, pages, th, closeLog, closeCalled, aborted>>

\* No call of the sniffer is in progress.
SniffIdle ==
    [pc |-> "idle", in |-> [kind |-> "none"], b |-> <<>>, pos |-> 0, out |-> "",
     res |-> FALSE, bits |-> 0]

\* No query has been made.
QueryIdle == [fn |-> "none", in |-> <<>>, out |-> <<>>, err |-> NoErr]

\* A text as the sequence of its characters.
DefaultFzVersion == <<"1", ".", "2", "4", ".", "9">>

\* The process before init has run.
BootIdle ==
    [pc |-> "start", in |-> [kind |-> "none"], lib |-> NULL, idx |-> 1, resolved |-> {},
     FzVersion |-> DefaultFzVersion, cfg |-> <<>>, x |-> 10, probes |-> <<>>,
     calls |-> <<>>]

\* &Document{}
ZeroDoc == [ctx |-> NULL, data |-> NilSlice, doc |-> NULL, stream |-> NULL]

NoNative == [ctx |-> "none", stream |-> "none", doc |-> "none"]

\* A goroutine that is in no call.
Idle ==
    [pc |-> "idle", op |-> "", arg |-> 0, locks |-> FALSE, idx |-> 0, np |-> -1,
     loaded |-> FALSE, defers |-> <<>>, acq |-> <<>>, dropLog |-> <<>>, res |-> NoErr]

\* ------------------------------------------------------------------ native library

\* fz_needs_password: not zero when the document needs a password; the library
\* answers 0 for a nil document.
fzNeedsPassword(doc, pw) == IF doc # NULL /\ pw THEN 1 ELSE 0

\* fz_count_pages: the page count of a live document.  On a context or document
\* that has been dropped the read is of freed memory and may yield any count.
fzCountPages(nat, n) ==
    IF nat.ctx = "live" /\ nat.doc = "live" THEN {n} ELSE 0..MaxPages

\* ------------------------------------------------------------------ open

\* Mutant: New giving up a document that needs a password: it drops the document
\* and the context and returns no Document.
NewDropsOnPassword(file, ans) ==
    IF ~file.absOK
    THEN [fp |-> "f", f |-> ZeroDoc, err |-> ErrForeign, native |-> NoNative, pwArg |-> "none"]
    ELSE IF ~file.exists
    THEN [fp |-> "f", f |-> ZeroDoc, err |-> ErrNoSuchFile, native |-> NoNative, pwArg |-> "none"]
    ELSE IF ~ans.ctxOK
    THEN [fp |-> "f", f |-> ZeroDoc, err |-> ErrCreateContext, native |-> NoNative, pwArg |-> "none"]
    ELSE IF ~ans.docOK
    THEN [fp |-> "f", f |-> [ZeroDoc EXCEPT !.ctx = "ctx"], err |-> ErrOpenDocument,
          native |-> [NoNative EXCEPT !.ctx = "live"], pwArg |-> "none"]
    ELSE IF fzNeedsPassword("doc", ans.pw) # 0
    THEN [fp |-> "nil", f |-> ZeroDoc, err |-> ErrNeedsPassword,
          native |-> [NoNative EXCEPT !.ctx = "dropped", !.doc = "dropped"],
          pwArg |-> "doc"]
    ELSE [fp |-> "f", f |-> [ZeroDoc EXCEPT !.ctx = "ctx", !.doc = "doc"],
          err |-> NoErr,
          native |-> [NoNative EXCEPT !.ctx = "live", !.doc = "live"], pwArg |-> "doc"]

\* New returns new fitz document.
New(file, ans) ==
    IF ~file.absOK
    THEN [fp |-> "f", f |-> ZeroDoc, err |-> ErrForeign, native |-> NoNative, pwArg |-> "none"]
    ELSE IF ~file.exists
    THEN [fp |-> "f", f |-> ZeroDoc, err |-> ErrNoSuchFile, native |-> NoNative, pwArg |-> "none"]
    ELSE IF ~ans.ctxOK
    THEN [fp |-> "f", f |-> ZeroDoc, err |-> ErrCreateContext, native |-> NoNative, pwArg |-> "none"]
    ELSE IF ~ans.docOK
    THEN [fp |-> "f", f |-> [ZeroDoc EXCEPT !.ctx = "ctx"], err |-> ErrOpenDocument,
          native |-> [NoNative EXCEPT !.ctx = "live"], pwArg |-> "none"]
    ELSE [fp |-> "f", f |-> [ZeroDoc EXCEPT !.ctx = "ctx", !.doc = "doc"],
          err |-> IF fzNeedsPassword("doc", ans.pw) # 0 THEN ErrNeedsPassword ELSE NoErr,
          native |-> [NoNative EXCEPT !.ctx = "live", !.doc = "live"], pwArg |-> "doc"]

\* NewFromMemory after its test of len(b): the context, the memory stream over b,
\* the sniffed format, the document, the password check.
openMemory(b, ans) ==
    IF ~ans.ctxOK
    THEN [fp |-> "f", f |-> ZeroDoc, err |-> ErrCreateContext, native |-> NoNative, pwArg |-> "none"]
    ELSE IF ~ans.streamOK
    THEN [fp |-> "f", f |-> [ZeroDoc EXCEPT !.ctx = "ctx"], err |-> ErrOpenMemory,
          native |-> [NoNative EXCEPT !.ctx = "live"], pwArg |-> "none"]
    ELSE IF contentType(b.bytes) = ""
    THEN [fp |-> "f", f |-> [ZeroDoc EXCEPT !.ctx = "ctx", !.stream = "stream"],
          err |-> ErrOpenMemory,
          native |-> [NoNative EXCEPT !.ctx = "live", !.stream = "live"], pwArg |-> "none"]
    ELSE LET doc == IF ans.docOK THEN "doc" ELSE NULL
             err1 == IF doc = NULL THEN ErrOpenDocument ELSE NoErr
             \* no return after ErrOpenDocument: the password check runs on doc
             err2 == IF fzNeedsPassword(doc, ans.pw) # 0 THEN ErrNeedsPassword ELSE err1
         IN  [fp |-> "f",
              f |-> [ctx |-> "ctx", data |-> b, doc |-> doc, stream |-> "stream"],
              err |-> err2,
              native |-> [ctx |-> "live", stream |-> "live",
                          doc |-> IF doc = NULL THEN "none" ELSE "live"],
              pwArg |-> doc]

\* Mutant: NewFromMemory without the test of len(b).
NewFromMemoryUnchecked(b, ans) == openMemory(b, ans)

\* NewFromMemory returns new fitz document from byte slice.
NewFromMemory(b, ans) ==
    IF GoLen(b) = 0
    THEN [fp |-> "nil", f |-> ZeroDoc, err |-> ErrEmptyBytes, native |-> NoNative, pwArg |-> "none"]
    ELSE openMemory(b, ans)

\* NewFromReader returns new fitz document from io.Reader.
NewFromReader(r, ans) ==
    IF r.fails
    THEN [fp |-> "nil", f |-> ZeroDoc, err |-> ErrForeign, native |-> NoNative, pwArg |-> "none"]
    ELSE NewFromMemory(Slice(r.bytes), ans)

\* The state once an open function has returned `out`.
Returned(fn, in, ans, out) ==
    /\ ret.fp = "pending"
    /\ ret' = [fp |-> out.fp, err |-> out.err, pwArg |-> out.pwArg]
    /\ f' = out.f
    /\ native' = out.native
    /\ pages' = IF out.native.doc = "live" THEN ans.n ELSE 0
    /\ opened' = [fn |-> fn, in |-> in]
    /\ UNCHANGED <<mtx, th, closeLog, closeCalled, aborted>>
    /\ UNCHANGED <<sniff, query, boot>>

CallNew ==
    \E file \in Files, ans \in NativeAnswers :
        /\ Returned("New", file, ans, New(file, ans))

CallNewFromMemory ==
    \E b \in Slices, ans \in NativeAnswers :
        /\ Returned("NewFromMemory", b, ans, NewFromMemory(b, ans))

CallNewFromReader ==
    \E r \in Readers, ans \in NativeAnswers :
        /\ Returned("NewFromReader", r, ans, NewFromReader(r, ans))

\* The caller may use the Document: it was opened, or only needs a password.
Usable == ret.fp = "f" /\ ret.err \in {NoErr, ErrNeedsPassword}

\* ------------------------------------------------------------------ page operations

\* A native call of an operation's body, in the order of the code: the variable it
\* assigns, whether that is a handle the caller owns, the error returned when the
\* code tests the result and it is nil ("" when the code does not test it), whether
\* the code defers the handle's drop, and whether the library may answer nil.
Checked(h, err) ==
    [h |-> h, makes |-> TRUE, err |-> err, deferred |-> TRUE, mayNil |-> TRUE]
Unchecked(h) ==
    [h |-> h, makes |-> TRUE, err |-> "", deferred |-> TRUE, mayNil |-> FALSE]

\* fzLoadPage, with its nil test and the deferred fzDropPage.
LoadPageCall == Checked("page", ErrLoadPage)

\* Mutant: ImageDPI without its defer fzDropPixmap.
ImageDPIBodyLeak ==
    <<LoadPageCall,
      [h |-> "pixmap", makes |-> TRUE, err |-> ErrCreatePixmap, deferred |-> FALSE,
       mayNil |-> TRUE],
      Unchecked("device"),
      [h |-> "pixels", makes |-> FALSE, err |-> ErrPixmapSamples, deferred |-> FALSE,
       mayNil |-> TRUE]>>

ImageDPIBody ==
    <<LoadPageCall, Checked("pixmap", ErrCreatePixmap), Unchecked("device"),
      [h |-> "pixels", makes |-> FALSE, err |-> ErrPixmapSamples, deferred |-> FALSE,
       mayNil |-> TRUE]>>

ImagePNGBody ==
    <<LoadPageCall, Checked("pixmap", ErrCreatePixmap), Unchecked("device"),
      Unchecked("buf")>>

\* fzLoadLinks answers nil for a page without links; the drop is deferred anyway.
LinksBody ==
    <<LoadPageCall,
      [h |-> "links", makes |-> TRUE, err |-> "", deferred |-> TRUE, mayNil |-> TRUE]>>

TextBody == <<LoadPageCall, Unchecked("text"), Unchecked("device"), Unchecked("buf")>>

HTMLBody ==
    <<LoadPageCall, Unchecked("text"), Unchecked("device"), Unchecked("buf"),
      Unchecked("out")>>

SVGBody == <<LoadPageCall, Unchecked("buf"), Unchecked("out"), Unchecked("device")>>

BoundBody == <<LoadPageCall>>

ErrBufferSize == "Invalid image buffer size"

\* ImageReadDPI of the cgo variant: the page is not tested against nil; after the
\* samples, cap(img.Pix) is tested against the size of the page.
ImageReadDPIBody ==
    <<Unchecked("page"), Checked("pixmap", ErrCreatePixmap), Unchecked("device"),
      [h |-> "pixels", makes |-> FALSE, err |-> ErrPixmapSamples, deferred |-> FALSE,
       mayNil |-> TRUE],
      [h |-> "img.Pix", makes |-> FALSE, err |-> ErrBufferSize, deferred |-> FALSE,
       mayNil |-> TRUE]>>

ToCBody == <<Checked("outline", ErrLoadOutline)>>

Body(op) ==
    CASE op = "ImageDPI" -> ImageDPIBody
      [] op = "ImagePNG" -> ImagePNGBody
      [] op = "Links" -> LinksBody
      [] op = "Text" -> TextBody
      [] op = "HTML" -> HTMLBody
      [] op = "SVG" -> SVGBody
      [] op = "Bound" -> BoundBody
      [] op = "ToC" -> ToCBody
      [] op = "ImageReadDPI" -> ImageReadDPIBody
      [] OTHER -> <<>>

\* The operations that load a page, and the queries of the whole document.
PageOps == {"ImageDPI", "ImagePNG", "Links", "Text", "HTML", "SVG", "Bound"}
QueryOps == {"ToC", "Metadata", "NumPage"}

\* A goroutine enters an operation; `locks` says that the operation begins with
\* f.mtx.Lock() and defer f.mtx.Unlock().  Callers use a Document that an open
\* function gave them and on which Close has not been called.
Call(t, op, n, locks) ==
    /\ ~aborted
    /\ Usable
    /\ ~closeCalled
    /\ th[t].pc = "idle"
    /\ th' = [th EXCEPT ![t] = [Idle EXCEPT !.pc = IF locks THEN "lock" ELSE "body",
                                            !.op = op, !.arg = n, !.locks = locks,
                                            !.idx = 1]]
    /\ UNCHANGED <<f, mtx, ret, opened, native, pages, closeLog, closeCalled, aborted>>
    /\ UNCHANGED <<sniff, query, boot>>

ImageDPI(t, pageNumber) == Call(t, "ImageDPI", pageNumber, TRUE)
ImagePNG(t, pageNumber) == Call(t, "ImagePNG", pageNumber, TRUE)
Links(t, pageNumber) == Call(t, "Links", pageNumber, TRUE)
Text(t, pageNumber) == Call(t, "Text", pageNumber, TRUE)
HTML(t, pageNumber) == Call(t, "HTML", pageNumber, TRUE)
SVG(t, pageNumber) == Call(t, "SVG", pageNumber, TRUE)
Bound(t, pageNumber) == Call(t, "Bound", pageNumber, TRUE)
\* Mutant: ToC beginning with f.mtx.Lock() like the page operations.
ToCLocked(t) == Call(t, "ToC", 0, TRUE)

ToC(t) == Call(t, "ToC", 0, FALSE)
Metadata(t) == Call(t, "Metadata", 0, FALSE)
NumPage(t) == Call(t, "NumPage", 0, FALSE)

\* Mutant: an operation that goes on without waiting for the mutex.
mayLockAlways(holder) == TRUE

\* sync.Mutex.Lock returns once no goroutine holds the mutex.
mayLock(holder) == holder = NoThread

\* Mutant: an operation that takes the lock and never defers its release.
LockNoDefer(t) ==
    /\ ~aborted
    /\ th[t].pc = "lock"
    /\ mayLock(mtx)
    /\ mtx' = t
    /\ th' = [th EXCEPT ![t].pc = "check"]
    /\ UNCHANGED <<f, ret, opened, native, pages, closeLog, closeCalled, aborted>>
    /\ UNCHANGED <<sniff, query, boot>>

\* f.mtx.Lock(); defer f.mtx.Unlock()
Lock(t) ==
    /\ ~aborted
    /\ th[t].pc = "lock"
    /\ mayLock(mtx)
    /\ mtx' = t
    /\ th' = [th EXCEPT ![t].pc = "check", ![t].defers = <<"unlock">>]
    /\ UNCHANGED <<f, ret, opened, native, pages, closeLog, closeCalled, aborted>>
    /\ UNCHANGED <<sniff, query, boot>>

\* Mutant: the test written with > in place of >=.
pageMissingOffByOne(pageNumber, numPage) == pageNumber > numPage

\* The test of every page operation: pageNumber >= f.NumPage().
pageMissing(pageNumber, numPage) == pageNumber >= numPage

\* if pageNumber >= f.NumPage() { return ErrPageMissing }
CheckPage(t) ==
    /\ ~aborted
    /\ th[t].pc = "check"
    /\ th[t].op # "MaxImageSize"
    /\ \E np \in fzCountPages(native, pages) :
        th' = [th EXCEPT ![t].np = np,
                         ![t].pc = IF pageMissing(th[t].arg, np) THEN "defer" ELSE "body",
                         ![t].res = IF pageMissing(th[t].arg, np)
                                    THEN ErrPageMissing ELSE NoErr]
    /\ UNCHANGED <<f, mtx, ret, opened, native, pages, closeLog, closeCalled, aborted>>
    /\ UNCHANGED <<sniff, query, boot>>

\* The native call at th[t].idx answered with a handle.
Acquired(t, c) ==
    [th EXCEPT ![t].idx = @ + 1,
               ![t].acq = IF c.makes THEN Append(@, c.h) ELSE @,
               ![t].defers = IF c.deferred THEN Append(@, c.h) ELSE @,
               ![t].loaded = @ \/ c.h = "page"]

\* The native call at th[t].idx answered nil: the tested handle returns its error,
\* the untested one goes on with a deferred drop of nil.
AnsweredNil(t, c) ==
    IF c.err # ""
    THEN [th EXCEPT ![t].res = c.err, ![t].pc = "defer", ![t].loaded = @ \/ c.h = "page"]
    ELSE [th EXCEPT ![t].idx = @ + 1,
                    ![t].defers = IF c.deferred THEN Append(@, c.h) ELSE @]

\* page := fzLoadPage(f.ctx, f.doc, pageNumber).  The library loads a page of the
\* document; for a number that is none of its pages it answers nil or, an error
\* being thrown with nothing to catch it, ends the process.
LoadPage(t) ==
    /\ ~aborted
    /\ th[t].pc = "body"
    /\ th[t].idx <= Len(Body(th[t].op))
    /\ LET c == Body(th[t].op)[th[t].idx] IN
        /\ c.h = "page"
        /\ \/ /\ th[t].arg \in 0..(pages - 1)
              /\ th' = Acquired(t, c)
              /\ UNCHANGED aborted
           \/ /\ th' = AnsweredNil(t, c)
              /\ UNCHANGED aborted
           \/ /\ th[t].arg \notin 0..(pages - 1)
              /\ th' = [th EXCEPT ![t].loaded = TRUE]
              /\ aborted' = TRUE
    /\ UNCHANGED <<f, mtx, ret, opened, native, pages, closeLog, closeCalled>>
    /\ UNCHANGED <<sniff, query, boot>>

\* Every other native constructor call of a body.
Acquire(t) ==
    /\ ~aborted
    /\ th[t].pc = "body"
    /\ th[t].idx <= Len(Body(th[t].op))
    /\ LET c == Body(th[t].op)[th[t].idx] IN
        /\ c.h # "page"
        /\ \/ th' = Acquired(t, c)
           \/ /\ c.mayNil
              /\ th' = AnsweredNil(t, c)
    /\ UNCHANGED <<f, mtx, ret, opened, native, pages, closeLog, closeCalled, aborted>>
    /\ UNCHANGED <<sniff, query, boot>>

\* The return statement at the end of a body, with a nil error.
ReturnOK(t) ==
    /\ ~aborted
    /\ th[t].pc = "body"
    /\ th[t].op \in PageOps \cup {"ToC", "ImageReadDPI"}
    /\ th[t].idx > Len(Body(th[t].op))
    /\ th' = [th EXCEPT ![t].pc = "defer", ![t].res = NoErr]
    /\ UNCHANGED <<f, mtx, ret, opened, native, pages, closeLog, closeCalled, aborted>>
    /\ UNCHANGED <<sniff, query, boot>>

\* return fzCountPages(f.ctx, f.doc): the caller has the count.
NumPageReturn(t) ==
    /\ ~aborted
    /\ th[t].pc = "body"
    /\ th[t].op = "NumPage"
    /\ \E np \in fzCountPages(native, pages) : th' = [th EXCEPT ![t] = Idle]
    /\ UNCHANGED <<f, mtx, ret, opened, native, pages, closeLog, closeCalled, aborted>>
    /\ UNCHANGED <<sniff, query, boot>>

\* The ten lookups of Metadata and its return.
MetadataReturn(t) ==
    /\ ~aborted
    /\ th[t].pc = "body"
    /\ th[t].op = "Metadata"
    /\ th' = [th EXCEPT ![t] = Idle]
    /\ UNCHANGED <<f, mtx, ret, opened, native, pages, closeLog, closeCalled, aborted>>
    /\ UNCHANGED <<sniff, query, boot>>

\* The deferred call that runs next when a function returns: the last deferred.
nextDeferred(defers) == Len(defers)

\* One deferred call runs: a drop of a handle (of nil: nothing happens), or
\* f.mtx.Unlock().  After the last one the function has returned and the goroutine
\* is free for its next call.
RunDefer(t) ==
    /\ ~aborted
    /\ th[t].pc = "defer"
    /\ IF th[t].defers = <<>>
       THEN /\ th' = [th EXCEPT ![t] = Idle]
            /\ UNCHANGED mtx
       ELSE LET k == nextDeferred(th[t].defers)
                d == th[t].defers[k]
                rest == [i \in 1..(Len(th[t].defers) - 1) |->
                            IF i < k THEN th[t].defers[i] ELSE th[t].defers[i + 1]]
            IN  /\ th' = IF rest = <<>>
                         THEN [th EXCEPT ![t] = Idle]
                         ELSE [th EXCEPT ![t].defers = rest,
                                         ![t].dropLog =
                                             IF d # "unlock" /\ d \in Range(th[t].acq)
                                             THEN Append(@, d) ELSE @]
                /\ mtx' = IF d = "unlock" THEN NoThread ELSE mtx
    /\ UNCHANGED <<f, ret, opened, native, pages, closeLog, closeCalled, aborted>>
    /\ UNCHANGED <<sniff, query, boot>>

\* ------------------------------------------------------------------ close

\* Mutant: the source bytes released first.
CloseOrderDataFirst == <<"data", "stream", "doc", "ctx">>

\* Mutant: the context dropped before the document.
CloseOrderCtxFirst == <<"stream", "ctx", "doc", "data">>

\* The statements of Close, in order: fzDropStream (when f.stream is not nil),
\* fzDropDocument, fzDropContext, f.data = nil.
CloseOrder == <<"stream", "doc", "ctx", "data">>

\* Close closes the underlying fitz document.  It takes no lock.  The caller calls
\* it once, on a Document that an open function returned.
Close(t) ==
    /\ ~aborted
    /\ ret.fp = "f"
    /\ ~closeCalled
    /\ th[t].pc = "idle"
    /\ closeCalled' = TRUE
    /\ th' = [th EXCEPT ![t] = [Idle EXCEPT !.pc = "close", !.op = "Close", !.idx = 1]]
    /\ UNCHANGED <<f, mtx, ret, opened, native, pages, closeLog, aborted>>
    /\ UNCHANGED <<sniff, query, boot>>

\* A native drop: a live handle becomes dropped, nil stays what it is.
Dropped(nat, field, handle) ==
    IF handle # NULL THEN [nat EXCEPT ![field] = "dropped"] ELSE nat

CloseStep(t) ==
    /\ ~aborted
    /\ th[t].pc = "close"
    /\ th[t].idx <= Len(CloseOrder)
    /\ LET s == CloseOrder[th[t].idx] IN
        /\ th' = IF th[t].idx = Len(CloseOrder)
                 THEN [th EXCEPT ![t] = Idle]
                 ELSE [th EXCEPT ![t].idx = @ + 1]
        /\ \/ /\ s = "stream"
              /\ IF f.stream # NULL
                 THEN /\ native' = Dropped(native, "stream", f.stream)
                      /\ closeLog' = Append(closeLog, s)
                 ELSE UNCHANGED <<native, closeLog>>
              /\ UNCHANGED f
           \/ /\ s = "doc"
              /\ native' = Dropped(native, "doc", f.doc)
              /\ closeLog' = Append(closeLog, s)
              /\ UNCHANGED f
           \/ /\ s = "ctx"
              /\ native' = Dropped(native, "ctx", f.ctx)
              /\ closeLog' = Append(closeLog, s)
              /\ UNCHANGED f
           \/ /\ s = "data"
              /\ f' = [f EXCEPT !.data = NilSlice]
              /\ closeLog' = Append(closeLog, s)
              /\ UNCHANGED native
    /\ UNCHANGED <<mtx, ret, opened, pages, closeCalled, aborted>>
    /\ UNCHANGED <<sniff, query, boot>>

\* A native call made with a dropped context reads freed memory: the process may
\* end there.
Crash(t) ==
    /\ ~aborted
    /\ native.ctx = "dropped"
    /\ th[t].pc \in {"check", "body", "defer"}
    /\ aborted' = TRUE
    /\ UNCHANGED <<f, mtx, ret, opened, native, pages, th, closeLog, closeCalled>>
    /\ UNCHANGED <<sniff, query, boot>>

\* ------------------------------------------------------------------ specifications

\* Nothing has been opened yet.
Unopened ==
    /\ f = ZeroDoc
    /\ ret = [fp |-> "pending", err |-> NoErr, pwArg |-> "none"]
    /\ opened = [fn |-> "none", in |-> NilSlice]
    /\ native = NoNative
    /\ pages = 0

Fresh ==
    /\ mtx = NoThread
    /\ th = [t \in Threads |-> Idle]
    /\ closeLog = <<>>
    /\ closeCalled = FALSE
    /\ aborted = FALSE
    /\ sniff = SniffIdle
    /\ query = QueryIdle
    /\ boot = BootIdle

\* The state in which an open function has returned `out`.
IsReturned(fn, in, n, out) ==
    /\ ret = [fp |-> out.fp, err |-> out.err, pwArg |-> out.pwArg]
    /\ f = out.f
    /\ native = out.native
    /\ pages = IF out.native.doc = "live" THEN n ELSE 0
    /\ opened = [fn |-> fn, in |-> in]

\* The native answers of an open that succeeds, for a document of n pages.
Success(n) == [ctxOK |-> TRUE, streamOK |-> TRUE, docOK |-> TRUE, pw |-> FALSE, n |-> n]

\* The Document in use: New or NewFromMemory has just returned it without error,
\* and the goroutines of the program share it.
Init ==
    /\ Fresh
    /\ \E n \in 1..MaxPages :
        \/ LET file == [absOK |-> TRUE, exists |-> TRUE]
           IN  IsReturned("New", file, n, New(file, Success(n)))
        \/ LET b == Slice(PdfBytes)
           IN  IsReturned("NewFromMemory", b, n, NewFromMemory(b, Success(n)))

Step(t) ==
    \/ \E n \in PageArgs : ImageDPI(t, n)
    \/ \E n \in PageArgs : ImagePNG(t, n)
    \/ \E n \in PageArgs : Links(t, n)
    \/ \E n \in PageArgs : Text(t, n)
    \/ \E n \in PageArgs : HTML(t, n)
    \/ \E n \in PageArgs : SVG(t, n)
    \/ \E n \in PageArgs : Bound(t, n)
    \/ ToC(t)
    \/ Metadata(t)
    \/ NumPage(t)
    \/ Lock(t)
    \/ CheckPage(t)
    \/ LoadPage(t)
    \/ Acquire(t)
    \/ ReturnOK(t)
    \/ NumPageReturn(t)
    \/ MetadataReturn(t)
    \/ RunDefer(t)
    \/ Close(t)
    \/ CloseStep(t)
    \/ Crash(t)

Next == \E t \in Threads : Step(t)

Spec == Init /\ [][Next]_vars

\* Opening: every open function on every input, and then the one goroutine that
\* opened the Document asks for its page count and its metadata and closes it.
InitOpen == Fresh /\ Unopened

Opener == CHOOSE t \in Threads : \A u \in Threads : t <= u

NextOpen ==
    \/ CallNew
    \/ CallNewFromMemory
    \/ CallNewFromReader
    \/ NumPage(Opener)
    \/ NumPageReturn(Opener)
    \/ Metadata(Opener)
    \/ MetadataReturn(Opener)
    \/ Close(Opener)
    \/ CloseStep(Opener)

SpecOpen == InitOpen /\ [][NextOpen]_vars

\* ------------------------------------------------------------------ claims

\* Goroutine t is between the lock acquisition and the lock release of a page
\* operation.
InCS(t) ==
    /\ th[t].op \in PageOps
    /\ \/ th[t].pc \in {"check", "body"}
       \/ th[t].pc = "defer" /\ "unlock" \in Range(th[t].defers)

\* The transient native handles of goroutine t that are live.
Held(t) == Range(th[t].acq) \ Range(th[t].dropLog)

IsPrefix(a, b) == Len(a) <= Len(b) /\ a = SubSeq(b, 1, Len(a))

\* Close has been called and has returned.
CloseDone == closeCalled /\ \A t \in Threads : th[t].op # "Close"

\* C1: at most one goroutine at a time is between the lock acquisition and the
\* lock release of ImageDPI, ImagePNG, Links, Text, HTML, SVG or Bound.
C1_MutualExclusion ==
    \A t1, t2 \in Threads : (InCS(t1) /\ InCS(t2)) => t1 = t2

\* One goroutine holds native handles inside its operation while another waits
\* for the lock.
C1_Witness ==
    \E t1, t2 \in Threads :
        /\ t1 # t2
        /\ InCS(t1) /\ Held(t1) # {}
        /\ th[t2].op \in PageOps /\ th[t2].pc = "lock"

\* C2: a page operation called with pageNumber >= NumPage() returns
\* ErrPageMissing, has loaded no page and has created no native handle.
C2_PageMissing ==
    \A t \in Threads :
        (th[t].op \in PageOps /\ th[t].np # -1 /\ th[t].arg >= th[t].np) =>
            /\ th[t].pc = "defer"
            /\ th[t].res = ErrPageMissing
            /\ ~th[t].loaded
            /\ th[t].acq = <<>>

\* Bound was called with the page count as its page number, as in TestBound, and
\* is returning ErrPageMissing.
C2_Witness ==
    \E t \in Threads :
        /\ th[t].op = "Bound" /\ th[t].np = pages /\ th[t].arg = th[t].np
        /\ th[t].pc = "defer" /\ th[t].res = ErrPageMissing

\* C3 as claimed: for every page number outside 0 <= n < pageCount, negative ones
\* included, the operation returns ErrPageMissing and fzLoadPage is not called.
C3_RangeChecked ==
    \A t \in Threads :
        (th[t].op \in PageOps /\ th[t].np # -1
            /\ ~(0 <= th[t].arg /\ th[t].arg < th[t].np)) =>
                /\ ~th[t].loaded
                /\ th[t].pc = "defer" /\ th[t].res = ErrPageMissing

CloseExpected ==
    (IF f.stream # NULL THEN <<"stream">> ELSE <<>>) \o <<"doc", "ctx", "data">>

\* C5: one call of Close drops the stream (only when the Document has one), then
\* the document, then the context, and only then releases the source bytes, each
\* once.
C5_CloseOrder ==
    /\ IsPrefix(closeLog, CloseExpected)
    /\ CloseDone => closeLog = CloseExpected
    /\ (closeCalled /\ "data" \in Range(closeLog)) =>
            /\ f.data = NilSlice
            /\ native.ctx = "dropped" /\ native.doc = "dropped"
            /\ native.stream # "live"

\* Close has returned on a Document that NewFromMemory opened, which has a stream.
C5_Witness ==
    /\ CloseDone
    /\ opened.fn = "NewFromMemory"
    /\ f.stream # NULL
    /\ Len(closeLog) = 4

\* C6 as claimed: the context is never dropped while a page, pixmap, device,
\* buffer or stream made from it is live, also when Close runs during an operation.
C6_ContextOutlives ==
    native.ctx = "dropped" =>
        /\ \A t \in Threads : Held(t) = {}
        /\ native.stream # "live"

\* C7: on every exit path of a page operation after the page has been loaded, the
\* handles acquired are dropped once each, in the reverse of the order of their
\* acquisition, and all of them before the lock is released; a goroutine holds
\* handles only with the lock.
C7_ReverseDrops ==
    \A t \in Threads :
        th[t].op \in PageOps =>
            /\ IsPrefix(th[t].dropLog, Reverse(th[t].acq))
            /\ (th[t].pc = "defer" /\ th[t].loaded
                    /\ (th[t].defers = <<"unlock">> \/ "unlock" \notin Range(th[t].defers)))
                => th[t].dropLog = Reverse(th[t].acq)
            /\ Held(t) # {} => mtx = t

\* ImageDPI is returning ErrPixmapSamples: the device, the pixmap and the page have
\* been dropped in that order and only the unlock is left.
C7_Witness ==
    \E t \in Threads :
        /\ th[t].op = "ImageDPI" /\ th[t].res = ErrPixmapSamples
        /\ th[t].pc = "defer" /\ th[t].defers = <<"unlock">>
        /\ th[t].acq = <<"page", "pixmap", "device">>
        /\ th[t].dropLog = <<"device", "pixmap", "page">>

\* Goroutine t is inside ToC, Metadata or NumPage.
InQuery(t) == th[t].op \in QueryOps /\ th[t].pc \in {"lock", "check", "body", "defer"}

\* C8 as claimed: ToC, Metadata and NumPage hold the lock for their whole duration,
\* so none runs while a page operation is inside its lock.
C8_QueriesLocked ==
    \A t \in Threads :
        InQuery(t) =>
            /\ th[t].pc \in {"body", "defer"} => mtx = t
            /\ \A u \in Threads \ {t} : ~InCS(u)

\* C8 as amended: ToC, Metadata and NumPage never take the Document's lock.
C8_QueriesTakeNoLock ==
    \A t \in Threads :
        InQuery(t) =>
            /\ mtx # t
            /\ th[t].pc \in {"body", "defer"}
            /\ "unlock" \notin Range(th[t].defers)

\* ToC has loaded the outline while another goroutine is inside a page operation
\* and holds the page.
C8_Witness ==
    \E t, u \in Threads :
        /\ t # u
        /\ th[t].op = "ToC" /\ th[t].pc = "body" /\ Held(t) = {"outline"}
        /\ InCS(u) /\ mtx = u /\ "page" \in Held(u)

\* C9: when the password check says that the opened document needs a password, the
\* open function returns ErrNeedsPassword with a Document whose context and
\* document are set and, until Close, not dropped.
C9_NeedsPassword ==
    (ret.err = ErrNeedsPassword /\ ~closeCalled) =>
        /\ ret.fp = "f"
        /\ f.ctx # NULL /\ f.doc # NULL
        /\ native.ctx = "live" /\ native.doc = "live"
        /\ pages >= 1

\* New has returned ErrNeedsPassword and the caller is inside NumPage.
C9_Witness ==
    /\ opened.fn = "New"
    /\ ret.err = ErrNeedsPassword
    /\ th[Opener].op = "NumPage" /\ th[Opener].pc = "body"

\* The error of NewFromMemory when the native memory stream cannot be opened.
StreamFailure(b) ==
    NewFromMemory(b, [ctxOK |-> TRUE, streamOK |-> FALSE, docOK |-> TRUE,
                      pw |-> FALSE, n |-> 1]).err

\* C10 as claimed: NewFromMemory of a buffer, not empty, whose format contentType
\* does not recognise returns an error other than the one of a memory stream that
\* cannot be opened.
C10_DistinctError ==
    (/\ opened.fn = "NewFromMemory"
     /\ GoLen(opened.in) > 0
     /\ contentType(opened.in.bytes) = ""
     /\ f.stream # NULL) =>
        /\ ret.err # NoErr
        /\ ret.err # StreamFailure(opened.in)

\* C11: a Document that NewFromMemory opened holds the source byte slice from the
\* moment the native document is open until the context has been dropped in Close:
\* while the native document exists and the context is not dropped, f.data is the
\* slice given to NewFromMemory, whatever page operations have run.
C11_DataRetained ==
    (/\ opened.fn = "NewFromMemory"
     /\ ret.err = NoErr
     /\ native.doc # "none"
     /\ native.ctx # "dropped") =>
        /\ f.data = opened.in
        /\ ~f.data.isNil

\* Close has dropped the stream and the document, the context is still live, a
\* goroutine is inside a page operation, and the Document still holds the bytes.
C11_Witness ==
    /\ opened.fn = "NewFromMemory"
    /\ closeLog = <<"stream", "doc">>
    /\ native.ctx = "live"
    /\ f.data = opened.in
    /\ \E t \in Threads : InCS(t) /\ Held(t) # {}

\* ------------------------------------------------------------------ sniffer calls

\* The bytes allowed past a format's length threshold, the prolog and comment
\* blocks before <svg, and the local file headers of a ZIP buffer.
MaxExtra == 1
MaxProlog == 2
MaxEntries == 4

Fill(n, c) == [i \in 1..n |-> c]

\* The bytes of the buffers shorter than 8: 'P', '7' and '\n' spell the shortest
\* magic number, that of PAM.
ShortAlphabet == {80, 55, 10}
ShortBuffers == UNION {[1..k -> ShortAlphabet] : k \in 0..7}

\* The bytes that fill a buffer after its magic number.
FillBytes == {0, 10, 60, 255}

\* The formats told by their first bytes: the MIME string that the tests expect,
\* the magic number, and the length under which contentType does not test it.
Magics ==
    {[mime |-> "image/x-portable-arbitrarymap", magic |-> <<80, 55, 10>>, min |-> 8],
     [mime |-> "image/x-portable-bitmap", magic |-> <<80, 49, 10>>, min |-> 8],
     [mime |-> "image/x-portable-bitmap", magic |-> <<80, 52, 10>>, min |-> 8],
     [mime |-> "image/x-portable-floatmap", magic |-> <<80, 70, 10>>, min |-> 8],
     [mime |-> "image/x-portable-floatmap", magic |-> <<80, 102, 10>>, min |-> 8],
     [mime |-> "image/x-portable-greymap", magic |-> <<80, 50, 10>>, min |-> 8],
     [mime |-> "image/x-portable-greymap", magic |-> <<80, 53, 10>>, min |-> 8],
     [mime |-> "image/x-portable-pixmap", magic |-> <<80, 51, 10>>, min |-> 8],
     [mime |-> "image/x-portable-pixmap", magic |-> <<80, 54, 10>>, min |-> 8],
     [mime |-> "image/gif", magic |-> <<71, 73, 70, 56>>, min |-> 8],
     [mime |-> "image/bmp", magic |-> <<66, 77>>, min |-> 16],
     [mime |-> "image/x-jb2", magic |-> <<151, 74, 66, 50, 13, 10, 26, 10>>, min |-> 16],
     [mime |-> "image/tiff", magic |-> <<73, 73, 42, 0>>, min |-> 32],
     [mime |-> "image/tiff", magic |-> <<77, 77, 0, 42>>, min |-> 32],
     [mime |-> "image/jpeg", magic |-> <<255, 216, 255>>, min |-> 64],
     [mime |-> "image/png", magic |-> <<137, 80, 78, 71, 13, 10, 26, 10>>, min |-> 64],
     [mime |-> "image/jp2", magic |-> <<255, 79, 255, 81>>, min |-> 64],
     [mime |-> "image/jp2",
      magic |-> <<0, 0, 0, 12, 106, 80, 32, 32, 13, 10, 135, 10>>, min |-> 64],
     [mime |-> "image/vnd.ms-photo", magic |-> <<73, 73, 188>>, min |-> 64],
     [mime |-> "application/pdf", magic |-> <<37, 80, 68, 70>>, min |-> 64],
     [mime |-> "image/vnd.adobe.photoshop", magic |-> <<56, 66, 80, 83>>, min |-> 64]}

\* A buffer that begins with a magic number, of the threshold length or more.
MagicInputs ==
    {[in |-> [kind |-> "magic", mime |-> m.mime, min |-> m.min],
      b |-> m.magic \o Fill(m.min + e - Len(m.magic), c)] :
        m \in Magics, e \in 0..MaxExtra, c \in FillBytes}

\* A number in 2 and in 4 bytes, little endian, as a ZIP archive stores it.
LE16(n) == <<n % 256, n \div 256>>
LE32(n) == <<n % 256, (n \div 256) % 256, (n \div 65536) % 256, n \div 16777216>>

\* A ZIP local file header with its file name and the stored data: the signature,
\* 14 bytes up to the sizes at offset 18, the length of the name at offset 26, the
\* name at offset 30.
LocalFile(name, data) ==
    signature \o Fill(14, 0) \o LE32(Len(data)) \o LE32(Len(data))
        \o LE16(Len(name)) \o LE16(0) \o name \o data

\* The entry names of the ZIP buffers, and the bytes of each.
EntryNames == {"[Content_Types].xml", "mimetype", "word/", "ppt/", "xl/", "_rels/.rels",
               "docProps", "a.png"}
LaterNames == {"word/", "ppt/", "xl/", "a.png"}

EntryBytes(name) ==
    CASE name = "[Content_Types].xml" -> XpsMarker
      [] name = "mimetype" -> SubSeq(EpubMarker, 1, 8)
      [] name = "word/" -> <<119, 111, 114, 100, 47>>
      [] name = "ppt/" -> <<112, 112, 116, 47>>
      [] name = "xl/" -> <<120, 108, 47>>
      [] name = "_rels/.rels" -> <<95, 114, 101, 108, 115, 47, 46, 114, 101, 108, 115>>
      [] name = "docProps" -> <<100, 111, 99, 80, 114, 111, 112, 115>>
      [] OTHER -> <<97, 46, 112, 110, 103>>

\* The stored data of an entry: "application/epub+zip" for mimetype, 32 bytes for
\* the others.
EntryData(name) == IF name = "mimetype" THEN SubSeq(EpubMarker, 9, 28) ELSE Fill(32, 1)

RECURSIVE Archive(_)
Archive(names) ==
    IF names = <<>> THEN <<>>
    ELSE LocalFile(EntryBytes(Head(names)), EntryData(Head(names))) \o Archive(Tail(names))

\* A buffer with the ZIP signature: up to MaxEntries local file headers, and zero
\* bytes up to the length of 64.
ZipInputs ==
    {[in |-> [kind |-> "zip", names |-> <<first>> \o later],
      b |-> Pad(Archive(<<first>> \o later), 64)] :
        first \in EntryNames,
        later \in UNION {[1..k -> LaterNames] : k \in 0..(MaxEntries - 1)}}

\* The byte order mark of UTF-8, the whitespace, a processing instruction <?xml?>
\* and a comment <!---->, and <svg.
Bom == <<239, 187, 191>>
Whitespace == <<32, 10, 9, 13>>
PrologBlock(kind) ==
    IF kind = "?" THEN <<60, 63, 120, 109, 108, 63, 62>>
    ELSE <<60, 33, 45, 45, 45, 45, 62>>
SvgTag == <<60, 115, 118, 103>>

RECURSIVE Prolog(_)
Prolog(kinds) ==
    IF kinds = <<>> THEN <<>>
    ELSE PrologBlock(Head(kinds)) \o <<10>> \o Prolog(Tail(kinds))

\* An SVG document: the optional mark, whitespace, up to MaxProlog blocks, <svg, and
\* spaces up to the length of 32.
SvgInputs ==
    {[in |-> [kind |-> "svg", bom |-> bom, ws |-> ws, prolog |-> kinds],
      b |-> LET doc == (IF bom THEN Bom ELSE <<>>) \o SubSeq(Whitespace, 1, ws)
                            \o Prolog(kinds) \o SvgTag
            IN  doc \o Fill(32 - Len(doc), 32)] :
        bom \in BOOLEAN, ws \in {0, 1, 4},
        kinds \in UNION {[1..k -> {"?", "!"}] : k \in 0..MaxProlog}}

\* Buffers of 32 bytes that are no SVG: a beginning, then one byte repeated.
OtherInputs ==
    {[in |-> [kind |-> "other"], b |-> head \o Fill(32 - Len(head), c)] :
        head \in {<<>>, <<60>>, <<60, 63>>, <<60, 33>>, <<60, 115>>, <<60, 115, 118>>,
                  <<239, 187>>, <<239, 187, 60, 115, 118, 103>>},
        c \in {0, 9, 32, 60, 62, 63}}

\* The sizes that a first local file header may state, as the four bytes at offset
\* 18: 2^24, 2^31 - 50, 2^31 - 49, 2^31, 2^32 - 50 and 2^32 - 1.
HeaderSizes ==
    {<<0, 0, 0, 1>>, <<206, 255, 255, 127>>, <<207, 255, 255, 127>>, <<0, 0, 0, 128>>,
     <<206, 255, 255, 255>>, <<255, 255, 255, 255>>}

\* A buffer of 64 bytes with one local file header that states such a size.
SizedInputs ==
    {[in |-> [kind |-> "sized", name |-> name, size |-> size],
      b |-> Pad(signature \o Fill(14, 0) \o size \o size \o LE16(Len(EntryBytes(name)))
                    \o LE16(0) \o EntryBytes(name), 64)] :
        name \in {"[Content_Types].xml", "_rels/.rels", "a.png"}, size \in HeaderSizes}

SniffInputs ==
    {[in |-> [kind |-> "short"], b |-> b] : b \in ShortBuffers}
        \cup MagicInputs \cup ZipInputs \cup SvgInputs \cup OtherInputs \cup SizedInputs

\* The widths of int in the builds of the package: GOARCH 386 and arm have 32 bits.
IntBits == {32, 64}

MaxInt32 == 2147483647

\* int(binary.LittleEndian.Uint32(buf[18:22]) + 49) where int has 32 bits: a sum of
\* 2^31 or more is a negative int.
Int32Plus49(buf) ==
    LET low == At(buf, 18) + 256 * At(buf, 19) + 65536 * At(buf, 20) + 49
        high == (At(buf, 21) + (low \div 16777216)) % 256
    IN  IF high >= 128 THEN (high - 256) * 16777216 + (low % 16777216)
        ELSE high * 16777216 + (low % 16777216)

startOffsetOf(buf, bits) == IF bits = 32 THEN Int32Plus49(buf) ELSE Uint32Plus49(buf)

\* s[lo:hi] of a slice whose capacity is its length: in range or a panic.
SliceInRange(s, lo, hi) == 0 <= lo /\ lo <= hi /\ hi <= Len(s)

\* compareBytes reaches slice[startOffset : startOffset+sl] out of range.
compareBytesPanics(slice, subSlice, startOffset) ==
    /\ ~(startOffset + Len(subSlice) > Len(slice))
    /\ ~SliceInRange(slice, startOffset, startOffset + Len(subSlice))

\* checkMSOoml calls compareBytes with "word/", then "ppt/", then "xl/".
checkMSOomlPanics(buf, offset) ==
    \/ compareBytesPanics(buf, <<119, 111, 114, 100, 47>>, offset)
    \/ compareBytesPanics(buf, <<112, 112, 116, 47>>, offset)
    \/ compareBytesPanics(buf, <<120, 108, 47>>, offset)

\* search reaches buf[start:end] out of range.  With an int of 32 bits start +
\* rangeNum wraps to a negative end, and search returns -1 before it slices.
searchPanics(buf, start, rangeNum, bits) ==
    IF bits = 32 /\ start > MaxInt32 - rangeNum THEN FALSE
    ELSE LET length == Len(buf)
             end == IF start + rangeNum > length THEN length ELSE start + rangeNum
         IN  ~(start >= end) /\ ~SliceInRange(buf, start, end)

\* What search returns when it does not panic.
searchIn(buf, start, rangeNum, bits) ==
    IF bits = 32 /\ start > MaxInt32 - rangeNum THEN -1 ELSE search(buf, start, rangeNum)

\* msooxml, followed for the index and slice expressions that are out of range.
msooxmlPanics(buf, bits) ==
    IF checkMSOomlPanics(buf, 30) THEN TRUE
    ELSE IF checkMSOoml(buf, 30).ok THEN FALSE
    ELSE IF /\ ~compareBytes(buf, XpsMarker, 30)
            /\ ~compareBytes(buf, <<95, 114, 101, 108, 115, 47, 46, 114, 101, 108, 115>>, 30)
            /\ ~compareBytes(buf, <<100, 111, 99, 80, 114, 111, 112, 115>>, 30)
            /\ ~compareBytes(buf, <<95, 114, 101, 108, 115>>, 30)
    THEN FALSE
    ELSE IF ~SliceInRange(buf, 18, 22) THEN TRUE
    ELSE
    LET start1 == startOffsetOf(buf, bits) IN
    IF searchPanics(buf, start1, 6000, bits) THEN TRUE
    ELSE IF searchIn(buf, start1, 6000, bits) = -1 THEN FALSE
    ELSE
    LET start2 == start1 + searchIn(buf, start1, 6000, bits) + 4 + 26 IN
    IF searchPanics(buf, start2, 6000, bits) THEN TRUE
    ELSE IF searchIn(buf, start2, 6000, bits) = -1 THEN FALSE
    ELSE
    LET start3 == start2 + searchIn(buf, start2, 6000, bits) + 4 + 26 IN
    IF checkMSOomlPanics(buf, start3) THEN TRUE
    ELSE IF checkMSOoml(buf, start3).ok THEN FALSE
    ELSE
    LET start4 == start3 + 26 IN
    IF searchPanics(buf, start4, 6000, bits) THEN TRUE
    ELSE IF searchIn(buf, start4, 6000, bits) = -1 THEN FALSE
    ELSE checkMSOomlPanics(buf, start4 + searchIn(buf, start4, 6000, bits) + 4 + 26)

\* The bytes from b[0] on that the helpers of each case group of contentType may
\* read: isGIF b[3]; isJBIG2 b[7]; isTIFF b[3] and isSVG b[1] and b[2:];
\* isEPUB b[57]; isMOBI, after its own test of the length, b[67].
GroupReads == <<4, 8, 4, 58, 68>>

\* The length under which contentType does not enter each group.
GroupMin == <<8, 16, 32, 64, 78>>

\* contentType, followed for the index and slice expressions that are out of range:
\* the bytes that the helpers read, and msooxml, which isDOCX calls for a buffer
\* with the ZIP signature (such a buffer matches none of the cases before isZIP).
contentTypePanics(b, bits) ==
    \/ \E g \in 1..Len(GroupReads) : Len(b) >= GroupMin[g] /\ Len(b) < GroupReads[g]
    \/ /\ Len(b) >= 64
       /\ isZIP(b)
       /\ msooxmlPanics(b, bits)

\* The caller sniffs a buffer: contentType(b), in a build with an int of 32 or of
\* 64 bits.
CallContentType ==
    /\ sniff.pc = "idle"
    /\ \E x \in SniffInputs, bits \in IntBits :
        sniff' = [pc |-> "returned", in |-> x.in, b |-> x.b, pos |-> 0,
                  out |-> IF contentTypePanics(x.b, bits) THEN "panic"
                          ELSE contentType(x.b),
                  res |-> FALSE, bits |-> bits]
    /\ UNCHANGED <<docVars, query, boot>>

\* r.ReadByte() of a bytes.Reader over b with its cursor at pos: the byte and the
\* cursor one further, or the error at the end and the cursor where it was.
ReadByteStuck(b, pos) ==
    IF pos >= Len(b) THEN [c |-> 0, err |-> TRUE, pos |-> pos]
    ELSE [c |-> At(b, pos), err |-> FALSE, pos |-> pos]

ReadByte(b, pos) ==
    IF pos >= Len(b) THEN [c |-> 0, err |-> TRUE, pos |-> pos]
    ELSE [c |-> At(b, pos), err |-> FALSE, pos |-> pos + 1]

\* The labels of isSVG.
SvgLabels == {"ParseSVGText", "ParseSVGElement", "ParseSVGComment"}

\* isSVG goes to a label, or returns, with the reader's cursor at pos.
Goto(label, pos) == [sniff EXCEPT !.pc = label, !.pos = pos]
ReturnBool(v, pos) == [sniff EXCEPT !.pc = "returned", !.pos = pos, !.res = v]

\* isSVG(b) begins: two bytes are skipped when the buffer begins with EF BB, and a
\* reader is made over the rest.
CallIsSVG ==
    /\ sniff.pc = "idle"
    /\ \E x \in SvgInputs \cup OtherInputs :
        sniff' = [pc |-> "ParseSVGText",
                  in |-> [kind |-> "isSVG", of |-> x.in, b |-> x.b],
                  b |-> IF At(x.b, 0) = 239 /\ At(x.b, 1) = 187
                        THEN SubSeq(x.b, 3, Len(x.b)) ELSE x.b,
                  pos |-> 0, out |-> "", res |-> FALSE, bits |-> 0]
    /\ UNCHANGED <<docVars, query, boot>>

\* One turn of the loop at ParseSVGText.
StepSVGText ==
    /\ sniff.pc = "ParseSVGText"
    /\ LET r == ReadByte(sniff.b, sniff.pos) IN
        sniff' = IF r.err THEN ReturnBool(FALSE, r.pos)
                 ELSE IF r.c \in {9, 10, 13, 32} THEN Goto("ParseSVGText", r.pos)
                 ELSE IF r.c = 60 THEN Goto("ParseSVGElement", r.pos)
                 ELSE ReturnBool(FALSE, r.pos)
    /\ UNCHANGED <<docVars, query, boot>>

\* The statement at ParseSVGElement: '!' or '?' begins a block to skip; 's', 'v',
\* 'g' make isSVG return true.
StepSVGElement ==
    /\ sniff.pc = "ParseSVGElement"
    /\ LET r1 == ReadByte(sniff.b, sniff.pos)
           r2 == ReadByte(sniff.b, r1.pos)
           r3 == ReadByte(sniff.b, r2.pos)
       IN  sniff' = IF r1.err THEN ReturnBool(FALSE, r1.pos)
                    ELSE IF r1.c = 33 \/ r1.c = 63 THEN Goto("ParseSVGComment", r1.pos)
                    ELSE IF r1.c # 115 THEN ReturnBool(FALSE, r1.pos)
                    ELSE IF r2.err \/ r2.c # 118 THEN ReturnBool(FALSE, r2.pos)
                    ELSE IF r3.err \/ r3.c # 103 THEN ReturnBool(FALSE, r3.pos)
                    ELSE ReturnBool(TRUE, r3.pos)
    /\ UNCHANGED <<docVars, query, boot>>

\* One turn of the loop at ParseSVGComment.
StepSVGComment ==
    /\ sniff.pc = "ParseSVGComment"
    /\ LET r == ReadByte(sniff.b, sniff.pos) IN
        sniff' = IF r.err THEN ReturnBool(FALSE, r.pos)
                 ELSE IF r.c = 62 THEN Goto("ParseSVGText", r.pos)
                 ELSE Goto("ParseSVGComment", r.pos)
    /\ UNCHANGED <<docVars, query, boot>>

\* The caller has the result and may sniff another buffer.
SniffReturn ==
    /\ sniff.pc = "returned"
    /\ sniff' = SniffIdle
    /\ UNCHANGED <<docVars, query, boot>>

InitSniff == Fresh /\ Unopened

NextSniff ==
    \/ CallContentType
    \/ CallIsSVG
    \/ StepSVGText
    \/ StepSVGElement
    \/ StepSVGComment
    \/ SniffReturn

SpecSniff == InitSniff /\ [][NextSniff]_vars

\* ------------------------------------------------------------------ claims on the sniffer

\* contentType has returned.
Sniffed == sniff.pc = "returned" /\ sniff.in.kind # "isSVG"

\* C12: for every buffer of length 0 to 7, whatever its bytes, contentType returns
\* the empty string.
C12_ShortIsEmpty == (Sniffed /\ Len(sniff.b) < 8) => sniff.out = ""

\* contentType has returned "" for seven bytes that begin with the magic number of
\* PAM.
C12_Witness ==
    /\ Sniffed
    /\ sniff.b = <<80, 55, 10, 80, 55, 10, 80>>
    /\ sniff.out = ""

\* C13: a buffer that begins with a format's magic number and has the length of the
\* format's threshold, or more, gets exactly the format's MIME string, whatever the
\* bytes after the magic number.
C13_MagicDecides == (Sniffed /\ sniff.in.kind = "magic") => sniff.out = sniff.in.mime

\* A JPEG XR buffer, which shares its first two bytes with TIFF, one byte longer
\* than the threshold of 64 and filled with FF, is image/vnd.ms-photo.
C13_Witness ==
    /\ Sniffed
    /\ sniff.in.kind = "magic"
    /\ Len(sniff.b) = 65 /\ sniff.b[1] = 73 /\ sniff.b[3] = 188 /\ sniff.b[65] = 255
    /\ sniff.out = "image/vnd.ms-photo"

MimeDocx == "application/vnd.openxmlformats-officedocument.wordprocessingml.document"
MimeXlsx == "application/vnd.openxmlformats-officedocument.spreadsheetml.sheet"
MimePptx == "application/vnd.openxmlformats-officedocument.presentationml.presentation"

\* C14 as claimed: the first entry's name is tested for the EPUB and XPS markers
\* first, so a ZIP buffer whose first entry is [Content_Types].xml is
\* application/oxps, also when a later local file header names word/, ppt/ or xl/.
C14_MarkersFirst ==
    (Sniffed /\ sniff.in.kind = "zip") =>
        /\ sniff.in.names[1] = "[Content_Types].xml" => sniff.out = "application/oxps"
        /\ sniff.in.names[1] = "mimetype" => sniff.out = "application/epub+zip"

ScanPrefixes == {"word/", "ppt/", "xl/"}

OoxmlMime(prefix) ==
    CASE prefix = "word/" -> MimeDocx
      [] prefix = "xl/" -> MimeXlsx
      [] prefix = "ppt/" -> MimePptx

\* What the first entry's markers say: EPUB, XPS, or a plain archive.
MarkerMime(names) ==
    IF names[1] = "mimetype" THEN "application/epub+zip"
    ELSE IF names[1] = "[Content_Types].xml" THEN "application/oxps"
    ELSE "application/zip"

\* C14 as amended: the scan for word/, ppt/ and xl/ comes first.  A first entry
\* under one of the three decides; with [Content_Types].xml first, the third local
\* file header and then the fourth decide when they are under one of the three;
\* the EPUB and XPS markers of the first entry decide only when the scan finds none.
C14_ScanFirst ==
    (Sniffed /\ sniff.in.kind = "zip") =>
        LET names == sniff.in.names IN
        /\ names[1] \in ScanPrefixes => sniff.out = OoxmlMime(names[1])
        /\ names[1] = "[Content_Types].xml" =>
            sniff.out =
                IF Len(names) >= 3 /\ names[3] \in ScanPrefixes THEN OoxmlMime(names[3])
                ELSE IF Len(names) >= 4 /\ names[4] \in ScanPrefixes
                THEN OoxmlMime(names[4])
                ELSE "application/oxps"
        /\ names[1] = "mimetype" => sniff.out = "application/epub+zip"
        /\ Range(names) \cap ScanPrefixes = {} => sniff.out = MarkerMime(names)

\* A buffer whose first entry is [Content_Types].xml and whose third is word/ is a
\* DOCX.
C14_Witness ==
    /\ Sniffed
    /\ sniff.in.kind = "zip"
    /\ sniff.in.names = <<"[Content_Types].xml", "a.png", "word/">>
    /\ isXPS(sniff.b)
    /\ sniff.out = MimeDocx

C16_SvgRecognised == (Sniffed /\ sniff.in.kind = "svg") => sniff.out = "image/svg+xml"

\* C17: isSVG terminates: the cursor never passes the end of the buffer, every turn
\* of its loops and every jump between its labels moves the cursor forward by a
\* byte at least, the only step that does not is the return of false at the end of
\* the buffer, and the result is that of isSVG.
C17_CursorAdvances ==
    /\ [](sniff.pos <= Len(sniff.b))
    /\ []((sniff.pc = "returned" /\ sniff.in.kind = "isSVG") =>
            sniff.res = isSVG(sniff.in.b))
    /\ [][sniff.pc \in SvgLabels =>
            \/ sniff'.pos > sniff.pos
            \/ /\ sniff'.pc = "returned" /\ ~sniff'.res
               /\ sniff.pos = Len(sniff.b) /\ sniff'.pos = sniff.pos]_vars

\* isSVG has returned false at the end of a buffer that begins with <? and never
\* closes it.
C17_Witness ==
    /\ sniff.pc = "returned"
    /\ sniff.in.kind = "isSVG"
    /\ sniff.in.b[1] = 60 /\ sniff.in.b[2] = 63
    /\ sniff.pos = Len(sniff.b)
    /\ ~sniff.res

\* ------------------------------------------------------------------ outline and metadata

\* The nodes of the largest outline.
MaxNodes == 4

\* A native outline, as the pointer to its first node: the sequence of the nodes
\* linked by Next, each with the outline under Down; nil is the empty sequence.
RECURSIVE Chains(_)
Chains(n) ==
    IF n = 0 THEN {<<>>}
    ELSE UNION {{<<[Down |-> d]>> \o rest : d \in Chains(j), rest \in Chains(n - 1 - j)} :
                    j \in 0..(n - 1)}

\* Each node is given its place for a title: the position in every chain from the
\* top down to the node.
RECURSIVE Titled(_, _, _)
Titled(chain, prefix, i) ==
    IF chain = <<>> THEN <<>>
    ELSE <<[Title |-> Append(prefix, i),
            Down |-> Titled(Head(chain).Down, Append(prefix, i), 1)]>>
         \o Titled(Tail(chain), prefix, i + 1)

Outlines == {Titled(c, <<>>, 1) : c \in UNION {Chains(n) : n \in 0..MaxNodes}}

\* Mutant: walk going to outline.Next before outline.Down.
RECURSIVE walkNextFirst(_, _)
walkNextFirst(outline, level) ==
    IF outline = <<>> THEN <<>>
    ELSE <<[Level |-> level, Title |-> Head(outline).Title]>>
         \o walkNextFirst(Tail(outline), level)
         \o (IF Head(outline).Down # <<>>
             THEN walkNextFirst(Head(outline).Down, level + 1) ELSE <<>>)

\* The closure walk of ToC: the entries appended to data, in order, by the loop over
\* outline, outline.Next, ... with the call on outline.Down inside it.
RECURSIVE walk(_, _)
walk(outline, level) ==
    IF outline = <<>> THEN <<>>
    ELSE <<[Level |-> level, Title |-> Head(outline).Title]>>
         \o (IF Head(outline).Down # <<>> THEN walk(Head(outline).Down, level + 1) ELSE <<>>)
         \o walk(Tail(outline), level)

\* What ToC returns for the outline that fzLoadOutline answers.
ToCResult(outline) ==
    IF outline = <<>> THEN [data |-> <<>>, err |-> ErrLoadOutline]
    ELSE [data |-> walk(outline, 1), err |-> NoErr]

\* The keys of the map Metadata returns, and the key each is looked up with.
DataKeys ==
    {"format", "encryption", "title", "author", "subject", "keywords", "creator",
     "producer", "creationDate", "modDate"}

NativeKey(k) ==
    CASE k = "format" -> "format"
      [] k = "encryption" -> "encryption"
      [] k = "title" -> "info:Title"
      [] k = "author" -> "info:Author"
      [] k = "subject" -> "info:Subject"
      [] k = "keywords" -> "info:Keywords"
      [] k = "creator" -> "info:Creator"
      [] k = "producer" -> "info:Producer"
      [] k = "creationDate" -> "info:CreationDate"
      [] k = "modDate" -> "info:modDate"

\* buf := make([]byte, 256)
BufSize == 256

\* A native document's metadata: the keys it has, each with the value "PDF".
Docs == {[k \in S |-> <<80, 68, 70>>] : S \in SUBSET {NativeKey(k) : k \in DataKeys}}

\* fz_lookup_metadata: the value and its terminating 0 are copied to buf when the
\* document has the key; buf is left as it is when it has not.
fzLookupMetadata(doc, key, buf) ==
    IF key \in DOMAIN doc
    THEN [i \in 1..Len(buf) |->
            IF i <= Len(doc[key]) THEN doc[key][i]
            ELSE IF i = Len(doc[key]) + 1 THEN 0
            ELSE buf[i]]
    ELSE buf

\* The closure lookup of Metadata: string(buf), the whole buffer.
lookup(doc, key) == fzLookupMetadata(doc, key, [i \in 1..BufSize |-> 0])

\* Mutant: Metadata storing only the keys that the document has.
MetadataResultFoundOnly(doc) ==
    [k \in {d \in DataKeys : NativeKey(d) \in DOMAIN doc} |-> lookup(doc, NativeKey(k))]

\* The map data that Metadata returns.
MetadataResult(doc) == [k \in DataKeys |-> lookup(doc, NativeKey(k))]

\* The nodes of the longest list of links.
MaxLinks == 3

\* The memory a char pointer points to: nil, or bytes with a terminating 0 among
\* them ("", "h", "ht", and "ht" with bytes left behind its terminator).
CStrings == {NULL, <<0>>, <<104, 0>>, <<104, 116, 0>>, <<104, 116, 0, 120, 0>>}

\* A native list of links, as the pointer to its first node: the sequence of the
\* nodes linked by Next, each with its Uri; nil is the empty sequence.
LinkLists == UNION {[1..k -> [Uri : CStrings]] : k \in 0..MaxLinks}

\* The loop of bytePtrToString: the number of bytes before the terminator.
RECURSIVE nulTerminator(_, _)
nulTerminator(p, n) == IF At(p, n) = 0 THEN n ELSE nulTerminator(p, n + 1)

\* bytePtrToString: the Go string of a C string.
bytePtrToString(p) ==
    IF p = NULL THEN <<>>
    ELSE IF At(p, 0) = 0 THEN <<>>
    ELSE SubSeq(p, 1, nulTerminator(p, 0))

\* The first loop of Links: the nodes from links on.
linkCount(links) == Len(links)

\* Mutant: the second loop of Links without currLink = currLink.Next.
LinksResultNoAdvance(links) ==
    IF linkCount(links) = 0 THEN [gLinks |-> <<>>, err |-> NoErr]
    ELSE [gLinks |-> [i \in 1..linkCount(links) |-> [URI |-> bytePtrToString(links[1].Uri)]],
          err |-> NoErr]

\* What Links returns for the list that fzLoadLinks answers: nil for no node, and
\* a slice of linkCount Links filled from the nodes in order.
LinksResult(links) ==
    IF linkCount(links) = 0 THEN [gLinks |-> <<>>, err |-> NoErr]
    ELSE [gLinks |-> [i \in 1..linkCount(links) |-> [URI |-> bytePtrToString(links[i].Uri)]],
          err |-> NoErr]

\* Links on a valid page with the links l.
CallLinks ==
    /\ query.fn = "none"
    /\ \E l \in LinkLists :
        LET r == LinksResult(l) IN
        query' = [fn |-> "Links", in |-> l, out |-> r.gLinks, err |-> r.err]
    /\ UNCHANGED <<docVars, sniff, boot>>

\* The longest side of a page, in points.
MaxSide == 2

\* The bounds of a page that fz_bound_page answers, in points: the origin left of,
\* at, or right of 0, and the far corner right of 0.
PageBounds ==
    {[X0 |-> x, Y0 |-> y, X1 |-> x + w, Y1 |-> y + h] :
        x \in -1..1, y \in -1..1, w \in 1..MaxSide, h \in 1..MaxSide}
    \cap [X0 : Int, Y0 : Int, X1 : 1..(MaxSide + 1), Y1 : 1..(MaxSide + 1)]

\* The resolutions asked for: dpi/72 is 1 or 2.
Dpis == {72, 144}

\* fz_scale, fz_transform_rect and fz_round_rect of the library, on bounds and a
\* scale that are whole numbers: each corner times dpi/72.
roundedBounds(bounds, dpi) ==
    LET k == dpi \div 72 IN
    [X0 |-> k * bounds.X0, Y0 |-> k * bounds.Y0, X1 |-> k * bounds.X1, Y1 |-> k * bounds.Y1]

\* fzNewPixmap(ctx, fzDeviceRgb(ctx), w, h, nil, 1): a pixmap of w by h pixels of
\* three colours and alpha, 4 bytes each.
fzNewPixmap(w, h) == [w |-> w, h |-> h, samples |-> 4 * w * h]

\* pixmap := fzNewPixmap(f.ctx, fzDeviceRgb(f.ctx), int(bbox.X1), int(bbox.Y1), nil, 1)
pagePixmap(bbox) == fzNewPixmap(bbox.X1, bbox.Y1)

\* image.NewRGBA(image.Rect(x0, y0, x1, y1)): the length of Pix.
rgbaPixLen(x0, y0, x1, y1) ==
    LET dx == IF x1 >= x0 THEN x1 - x0 ELSE x0 - x1
        dy == IF y1 >= y0 THEN y1 - y0 ELSE y0 - y1
    IN  4 * dx * dy

\* copy(dst, src): the number of bytes copied.
copied(dstLen, srcLen) == IF dstLen < srcLen THEN dstLen ELSE srcLen

\* ImageDPI from the pixmap on: the pixmap, the length of img.Pix, the length of
\* unsafe.Slice(pixels, 4*bbox.X1*bbox.Y1) and the bytes that copy moves.
ImageDPIResult(bounds, dpi) ==
    LET bbox == roundedBounds(bounds, dpi)
        pixmap == pagePixmap(bbox)
        pix == rgbaPixLen(bbox.X0, bbox.Y0, bbox.X1, bbox.Y1)
        src == 4 * bbox.X1 * bbox.Y1
    IN  [bbox |-> bbox, pixmap |-> pixmap, pix |-> pix, src |-> src,
         copied |-> copied(pix, src)]

\* ImagePNG up to the pixmap that is encoded.
ImagePNGResult(bounds, dpi) ==
    LET bbox == roundedBounds(bounds, dpi)
    IN  [bbox |-> bbox, pixmap |-> pagePixmap(bbox)]

\* ImageDPI on a page with the bounds b.
CallImageDPI ==
    /\ query.fn = "none"
    /\ \E b \in PageBounds, dpi \in Dpis :
        query' = [fn |-> "ImageDPI", in |-> [bounds |-> b, dpi |-> dpi],
                  out |-> ImageDPIResult(b, dpi), err |-> NoErr]
    /\ UNCHANGED <<docVars, sniff, boot>>

\* ImagePNG on a page with the bounds b.
CallImagePNG ==
    /\ query.fn = "none"
    /\ \E b \in PageBounds, dpi \in Dpis :
        query' = [fn |-> "ImagePNG", in |-> [bounds |-> b, dpi |-> dpi],
                  out |-> ImagePNGResult(b, dpi), err |-> NoErr]
    /\ UNCHANGED <<docVars, sniff, boot>>

\* ToC on a document with the outline o.
CallToC ==
    /\ query.fn = "none"
    /\ \E o \in Outlines :
        LET r == ToCResult(o) IN
        query' = [fn |-> "ToC", in |-> o, out |-> r.data, err |-> r.err]
    /\ UNCHANGED <<docVars, sniff, boot>>

\* Metadata on a document with the metadata doc.
CallMetadata ==
    /\ query.fn = "none"
    /\ \E doc \in Docs :
        query' = [fn |-> "Metadata", in |-> doc, out |-> MetadataResult(doc),
                  err |-> NoErr]
    /\ UNCHANGED <<docVars, sniff, boot>>

\* The caller has the result.
QueryReturn ==
    /\ query.fn # "none"
    /\ query' = QueryIdle
    /\ UNCHANGED <<docVars, sniff, boot>>

InitQuery == Fresh /\ Unopened

NextQuery ==
    \/ CallToC
    \/ CallLinks
    \/ CallImageDPI
    \/ CallImagePNG
    \/ CallMetadata
    \/ QueryReturn

SpecQuery == InitQuery /\ [][NextQuery]_vars

\* ------------------------------------------------------------------ claims on the queries

\* The titles of the nodes of an outline.
RECURSIVE NodeTitles(_)
NodeTitles(chain) ==
    IF chain = <<>> THEN {}
    ELSE {Head(chain).Title} \cup NodeTitles(Head(chain).Down) \cup NodeTitles(Tail(chain))

\* Place p comes before place q in depth-first pre-order: p is a proper prefix of q
\* (p is above q), or p is less than q where they part.
Before(p, q) ==
    \/ Len(p) < Len(q) /\ p = SubSeq(q, 1, Len(p))
    \/ \E k \in 1..Len(p) :
        /\ k <= Len(q)
        /\ SubSeq(p, 1, k - 1) = SubSeq(q, 1, k - 1)
        /\ p[k] < q[k]

\* C18: ToC returns one entry per node of the outline, in depth-first pre-order,
\* the top chain at Level 1 and every child one level below its parent; the first
\* Level is 1 and no Level is more than one above that of the entry before it.
C18_PreOrder ==
    (query.fn = "ToC" /\ query.err = NoErr) =>
        LET data == query.out IN
        /\ Len(data) = Cardinality(NodeTitles(query.in))
        /\ {data[i].Title : i \in 1..Len(data)} = NodeTitles(query.in)
        /\ \A i \in 1..Len(data) : data[i].Level = Len(data[i].Title)
        /\ \A i \in 1..(Len(data) - 1) : Before(data[i].Title, data[i + 1].Title)
        /\ data[1].Level = 1
        /\ \A i \in 1..(Len(data) - 1) : data[i + 1].Level <= data[i].Level + 1

\* ToC has returned the four entries of an outline of two top nodes, the first with
\* a child that has a child: levels 1, 2, 3, 1.
C18_Witness ==
    /\ query.fn = "ToC"
    /\ Len(query.out) = 4
    /\ query.out[1] = [Level |-> 1, Title |-> <<1>>]
    /\ query.out[2] = [Level |-> 2, Title |-> <<1, 1>>]
    /\ query.out[3] = [Level |-> 3, Title |-> <<1, 1, 1>>]
    /\ query.out[4] = [Level |-> 1, Title |-> <<2>>]

\* C19: the map Metadata returns has exactly the ten keys, whatever keys the
\* document has.
C19_TenKeys ==
    query.fn = "Metadata" =>
        /\ DOMAIN query.out = DataKeys
        /\ Cardinality(DOMAIN query.out) = 10

\* Metadata has returned ten keys for a document that has none of them.
C19_Witness ==
    /\ query.fn = "Metadata"
    /\ DOMAIN query.in = {}
    /\ Cardinality(DOMAIN query.out) = 10

\* C20 as claimed: the value of every key that the document does not have is the
\* empty string, of length 0.
C20_MissingIsEmpty ==
    query.fn = "Metadata" =>
        \A k \in DOMAIN query.out :
            NativeKey(k) \notin DOMAIN query.in => Len(query.out[k]) = 0

\* The string a char pointer stands for: the bytes before the first 0, and the
\* empty string for nil.
IsStringOf(s, p) ==
    IF p = NULL THEN s = <<>>
    ELSE /\ Len(s) < Len(p)
         /\ p[Len(s) + 1] = 0
         /\ \A i \in 1..Len(s) : s[i] = p[i] /\ s[i] # 0

MaxPatch == 10

\* The entry points that init resolves with newBundle, in the order of the code.
Bundles ==
    <<"fz_bound_page", "fz_transform_rect", "fz_round_rect", "fz_scale",
      "fz_new_draw_device", "fz_run_page_contents", "fz_new_buffer_from_pixmap_as_png",
      "fz_new_stext_page", "fz_new_svg_device">>

\* The entry points that init resolves with purego.RegisterLibFunc, in order.
LibFuncs ==
    <<"fz_new_context_imp", "fz_drop_context", "fz_open_document",
      "fz_open_document_with_stream", "fz_open_memory", "fz_drop_stream",
      "fz_register_document_handlers", "fz_needs_password", "fz_drop_document",
      "fz_count_pages", "fz_load_page", "fz_drop_page", "fz_new_pixmap",
      "fz_drop_pixmap", "fz_pixmap_samples", "fz_clear_pixmap_with_value",
      "fz_enable_device_hints", "fz_drop_device", "fz_close_device", "fz_device_rgb",
      "fz_new_buffer", "fz_drop_buffer", "fz_buffer_storage", "fz_string_from_buffer",
      "fz_load_links", "fz_drop_link", "fz_drop_stext_page", "fz_new_stext_device",
      "fz_new_buffer_from_stext_page", "fz_lookup_metadata", "fz_load_outline",
      "fz_drop_outline", "fz_new_output_with_buffer", "fz_drop_output",
      "fz_close_output", "fz_print_stext_page_as_html",
      "fz_print_stext_header_as_html", "fz_print_stext_trailer_as_html">>

\* The statements of init that resolve an entry point, in order.
InitOrder == Bundles \o LibFuncs

\* strings.Split(s, "."): the parts between the dots.
RECURSIVE Split(_)
Split(s) ==
    IF \A i \in 1..Len(s) : s[i] # "."
    THEN <<s>>
    ELSE LET i == CHOOSE k \in 1..Len(s) : s[k] = "." /\ \A j \in 1..(k - 1) : s[j] # "."
         IN  <<SubSeq(s, 1, i - 1)>> \o Split(SubSeq(s, i + 1, Len(s)))

\* strings.Join(parts, ".")
RECURSIVE Join(_)
Join(parts) ==
    IF parts = <<>> THEN <<>>
    ELSE IF Len(parts) = 1 THEN parts[1]
    ELSE parts[1] \o <<".">> \o Join(Tail(parts))

Digits == <<"0", "1", "2", "3", "4", "5", "6", "7", "8", "9">>

\* strconv.Itoa of a number that is not negative.
RECURSIVE Itoa(_)
Itoa(x) == IF x < 10 THEN <<Digits[x + 1]>> ELSE Itoa(x \div 10) \o <<Digits[(x % 10) + 1]>>

\* Mutant: the probed version made from the whole of FzVersion, its last part kept.
probeVersionKeepsPatch(FzVersion, x) == Join(Split(FzVersion)) \o <<".">> \o Itoa(x)

\* v + "." + strconv.Itoa(x), v being FzVersion without its last part.
probeVersion(FzVersion, x) ==
    LET s == Split(FzVersion)
        v == Join(SubSeq(s, 1, Len(s) - 1))
    IN  v \o <<".">> \o Itoa(x)

\* The values of the environment variable FZ_VERSION: not set, 1.24.10, 1.24.11,
\* 1.23.0, 1.24.09 and 1.24.
EnvVersions ==
    {<<>>,
     <<"1", ".", "2", "4", ".", "1", "0">>,
     <<"1", ".", "2", "4", ".", "1", "1">>,
     <<"1", ".", "2", "3", ".", "0">>,
     <<"1", ".", "2", "4", ".", "0", "9">>,
     <<"1", ".", "2", "4">>}

\* The version of the installed library (1.24.9, 1.24.10, 1.24.8, 1.24.0, 1.23.3,
\* 1.25.1, 1.10), or none for a library that cannot make a context at all.
LibVersions ==
    {<<"1", ".", "2", "4", ".", "9">>,
     <<"1", ".", "2", "4", ".", "1", "0">>,
     <<"1", ".", "2", "4", ".", "8">>,
     <<"1", ".", "2", "4", ".", "0">>,
     <<"1", ".", "2", "3", ".", "3">>,
     <<"1", ".", "2", "5", ".", "1">>,
     <<"1", ".", "1", "0">>,
     <<>>}

\* The process that init runs in: whether the shared library can be loaded, the
\* entry point that the library lacks, the bundle whose call interface cannot be
\* prepared, the environment, and the library's version.
BootInputs ==
    {[kind |-> "boot", libOK |-> l, missing |-> m, badCif |-> c, env |-> e, version |-> v] :
        l \in BOOLEAN,
        m \in {NULL, "fz_bound_page", "fz_new_svg_device", "fz_new_context_imp",
               "fz_print_stext_trailer_as_html"},
        c \in {NULL, "fz_round_rect"},
        e \in EnvVersions, v \in LibVersions}

\* fz_new_context_imp answers nil unless it is given the library's own version.
fzNewContextImp(in, version) == IF in.version # <<>> /\ version = in.version THEN "ctx" ELSE NULL

\* A native entry point is invoked: the call, and whether the library was loaded
\* and the entry point resolved.
Invoked(name) ==
    Append(boot.calls, [name |-> name, bound |-> boot.lib # NULL /\ name \in boot.resolved])

\* libmupdf = loadLibrary(): purego.Dlopen, and a panic on its error.
LoadLibrary ==
    /\ boot.pc = "start"
    /\ \E in \in BootInputs :
        boot' = IF in.libOK
                THEN [boot EXCEPT !.pc = "getenv", !.in = in, !.lib = "handle"]
                ELSE [boot EXCEPT !.pc = "panic", !.in = in]
    /\ UNCHANGED <<docVars, sniff, query>>

\* if os.Getenv("FZ_VERSION") != "" { FzVersion = os.Getenv("FZ_VERSION") }
Getenv ==
    /\ boot.pc = "getenv"
    /\ boot' = [boot EXCEPT !.pc = "resolve",
                            !.FzVersion = IF boot.in.env # <<>> THEN boot.in.env ELSE @]
    /\ UNCHANGED <<docVars, sniff, query>>

\* Mutant: RegisterLibFunc leaving the function unbound when the library lacks the
\* entry point.
RegisterLibFuncUnbound(name) ==
    IF boot.in.missing = name
    THEN [boot EXCEPT !.idx = @ + 1]
    ELSE [boot EXCEPT !.idx = @ + 1, !.resolved = @ \cup {name}]

\* purego.RegisterLibFunc(&fn, libmupdf, name): the entry point is looked up and
\* bound to fn; it panics when the library lacks the entry point.
RegisterLibFunc(name) ==
    IF boot.in.missing = name
    THEN [boot EXCEPT !.pc = "panic"]
    ELSE [boot EXCEPT !.idx = @ + 1, !.resolved = @ \cup {name}]

\* newBundle(name, ...): purego.Dlsym and a panic on its error, ffi.PrepCif and a
\* panic on a status that is not OK.
newBundle(name) ==
    IF boot.in.missing = name THEN [boot EXCEPT !.pc = "panic"]
    ELSE IF boot.in.badCif = name THEN [boot EXCEPT !.pc = "panic"]
    ELSE [boot EXCEPT !.idx = @ + 1, !.resolved = @ \cup {name}]

\* One statement of init that resolves an entry point with newBundle.
ResolveBundle ==
    /\ boot.pc = "resolve"
    /\ boot.idx <= Len(Bundles)
    /\ boot' = newBundle(InitOrder[boot.idx])
    /\ UNCHANGED <<docVars, sniff, query>>

\* One statement of init that resolves an entry point with RegisterLibFunc.
ResolveLibFunc ==
    /\ boot.pc = "resolve"
    /\ boot.idx > Len(Bundles)
    /\ boot.idx <= Len(InitOrder)
    /\ boot' = RegisterLibFunc(InitOrder[boot.idx])
    /\ UNCHANGED <<docVars, sniff, query>>

\* ver := version(), its first statement: a context with FzVersion as configured.
VersionConfigured ==
    /\ boot.pc = "resolve"
    /\ boot.idx > Len(InitOrder)
    /\ boot' = [boot EXCEPT
                    !.cfg = boot.FzVersion,
                    !.calls = Invoked("fz_new_context_imp"),
                    !.x = MaxPatch,
                    !.pc = IF fzNewContextImp(boot.in, boot.FzVersion) # NULL
                           THEN "done" ELSE "probe"]
    /\ UNCHANGED <<docVars, sniff, query>>

\* One turn of the loop of version(), and after the loop the return of "", which
\* leaves FzVersion as it was.
VersionProbe ==
    /\ boot.pc = "probe"
    /\ LET ver == probeVersion(boot.FzVersion, boot.x) IN
       boot' = IF boot.x < 0 THEN [boot EXCEPT !.pc = "done"]
               ELSE IF ver = boot.FzVersion THEN [boot EXCEPT !.x = @ - 1]
               ELSE IF fzNewContextImp(boot.in, ver) # NULL
               THEN [boot EXCEPT !.calls = Invoked("fz_new_context_imp"),
                                 !.probes = Append(@, ver),
                                 !.FzVersion = ver, !.pc = "done"]
               ELSE [boot EXCEPT !.calls = Invoked("fz_new_context_imp"),
                                 !.probes = Append(@, ver), !.x = @ - 1]
    /\ UNCHANGED <<docVars, sniff, query>>

\* After init the program opens a document: New and NewFromMemory begin with
\* fzNewContextImp(nil, nil, uint64(MaxStore), FzVersion).
OpenAfterInit ==
    /\ boot.pc = "done"
    /\ boot' = [boot EXCEPT !.pc = "opened", !.calls = Invoked("fz_new_context_imp")]
    /\ UNCHANGED <<docVars, sniff, query>>

InitBoot == Fresh /\ Unopened

NextBoot ==
    \/ LoadLibrary
    \/ Getenv
    \/ ResolveBundle
    \/ ResolveLibFunc
    \/ VersionConfigured
    \/ VersionProbe
    \/ OpenAfterInit

SpecBoot == InitBoot /\ [][NextBoot]_vars

\* ------------------------------------------------------------------ claims on init

\* The number that a text of digits stands for.
RECURSIVE Atoi(_)
Atoi(s) ==
    IF s = <<>> THEN 0
    ELSE 10 * Atoi(SubSeq(s, 1, Len(s) - 1))
         + (CHOOSE d \in 0..9 : Digits[d + 1] = s[Len(s)])

\* The patch number of a version major.minor.patch, and its major.minor.
Patch(version) == Atoi(Split(version)[3])
MajorMinor(version) == SubSeq(Split(version), 1, 2)

\* The context with the configured FzVersion of three parts could not be made.
Probing == boot.pc \in {"probe", "done", "opened"} /\ Len(Split(boot.cfg)) = 3
    /\ fzNewContextImp(boot.in, boot.cfg) = NULL

\* C22 as claimed: the versions probed have the configured major.minor and a patch
\* number below the configured one, in strictly decreasing order, and FzVersion
\* becomes the first of them for which a context can be made.
C22_ProbesBelow ==
    Probing =>
        \A i \in 1..Len(boot.probes) :
            /\ Len(Split(boot.probes[i])) = 3
            /\ MajorMinor(boot.probes[i]) = MajorMinor(boot.cfg)
            /\ Patch(boot.probes[i]) < Patch(boot.cfg)

\* C22 as amended: the versions probed have the configured major.minor and a patch
\* number from 10 down to 0, none is the configured version itself, the patch
\* numbers strictly decrease, none is probed after one for which a context can be
\* made, and FzVersion becomes that one; it stays as configured when there is none.
C22_ProbesFromTen ==
    Probing =>
        /\ \A i \in 1..Len(boot.probes) :
            /\ Len(Split(boot.probes[i])) = 3
            /\ MajorMinor(boot.probes[i]) = MajorMinor(boot.cfg)
            /\ Patch(boot.probes[i]) \in 0..10
            /\ boot.probes[i] # boot.cfg
            /\ i > 1 => Patch(boot.probes[i]) < Patch(boot.probes[i - 1])
            /\ i < Len(boot.probes) => fzNewContextImp(boot.in, boot.probes[i]) = NULL
        /\ boot.pc \in {"done", "opened"} =>
            IF \E i \in 1..Len(boot.probes) : fzNewContextImp(boot.in, boot.probes[i]) # NULL
            THEN boot.FzVersion = boot.probes[Len(boot.probes)]
            ELSE boot.FzVersion = boot.cfg /\ Len(boot.probes) >= 10

\* With 1.24.9 configured and the library 1.24.8 installed, init has probed 1.24.10
\* and then 1.24.8, and FzVersion is 1.24.8.
C22_Witness ==
    /\ boot.pc = "done"
    /\ boot.cfg = DefaultFzVersion
    /\ boot.probes = <<probeVersion(DefaultFzVersion, 10), probeVersion(DefaultFzVersion, 8)>>
    /\ boot.FzVersion = <<"1", ".", "2", "4", ".", "8">>

\* C23: init either loads the library and resolves every entry point, or ends in a
\* panic; it panics exactly when the library cannot be loaded, lacks an entry point
\* or a call interface cannot be prepared, and no native entry point, the context
\* creation of version() and of New and NewFromMemory included, is invoked while
\* the library or the entry point is not resolved.
C23_ResolvedOrPanic ==
    /\ \A i \in 1..Len(boot.calls) : boot.calls[i].bound
    /\ boot.pc = "panic" =>
        /\ boot.calls = <<>>
        /\ \/ ~boot.in.libOK
           \/ boot.in.missing # NULL
           \/ boot.in.badCif # NULL
    /\ boot.pc \in {"probe", "done", "opened"} =>
        /\ boot.lib # NULL
        /\ boot.resolved = Range(InitOrder)
        /\ boot.in.libOK /\ boot.in.missing = NULL /\ boot.in.badCif = NULL
        /\ boot.calls # <<>>

\* init has panicked at its last RegisterLibFunc, the library lacking
\* fz_print_stext_trailer_as_html: every other entry point is resolved and none
\* has been invoked.
C23_Witness ==
    /\ boot.pc = "panic"
    /\ boot.in.libOK
    /\ boot.in.missing = "fz_print_stext_trailer_as_html"
    /\ boot.idx = Len(InitOrder)
    /\ Cardinality(boot.resolved) = Len(InitOrder) - 1
    /\ boot.calls = <<>>

\* ------------------------------------------------------------------ claims on opening

\* The native call that opens the document was made and answered nil.
OpenAnsweredNil ==
    /\ ret.fp = "f"
    /\ ~closeCalled
    /\ f.ctx # NULL
    /\ f.doc = NULL
    /\ \/ opened.fn = "New"
       \/ opened.fn = "NewFromMemory" /\ ~f.data.isNil

\* C24 as claimed: when the native call that opens the document answers nil, New
\* and NewFromMemory return ErrOpenDocument at once: fzNeedsPassword is not called
\* with the nil document.
C24_ReturnsAtOnce ==
    OpenAnsweredNil =>
        /\ ret.err = ErrOpenDocument
        /\ ret.pwArg = "none"

\* ------------------------------------------------------------------ claims on rendering

\* C25 as claimed: ImageDPI and ImagePNG make the pixmap X1-X0 wide and Y1-Y0 high,
\* X0, Y0, X1, Y1 being the rounded, scaled bounds of the page, so that for every
\* bounds, those with an origin other than (0,0) included, the bytes copied out of
\* the pixmap are as many as the pixmap has and as img.Pix has.
C25_PixmapOfBounds ==
    /\ query.fn \in {"ImageDPI", "ImagePNG"} =>
        /\ query.out.pixmap.w = query.out.bbox.X1 - query.out.bbox.X0
        /\ query.out.pixmap.h = query.out.bbox.Y1 - query.out.bbox.Y0
    /\ query.fn = "ImageDPI" =>
        /\ query.out.copied = query.out.pix
        /\ query.out.copied = query.out.pixmap.samples

\* ------------------------------------------------------------------ the cgo variant's operations

\* The handles of the pages that MaxImageSize loads, by page number.
PageHandles == <<"page 0", "page 1", "page 2", "page 3">>

\* The operations that begin with f.mtx.Lock() and defer f.mtx.Unlock().
LockOps == PageOps \cup {"MaxImageSize", "ImageReadDPI"}

ImageReadDPI(t, pageNumber) == Call(t, "ImageReadDPI", pageNumber, TRUE)

\* MaxImageSize begins; its pageNumber is the variable of its loop.
MaxImageSize(t) == Call(t, "MaxImageSize", 0, TRUE)

\* npages := int(C.fz_count_pages(f.ctx, f.doc)), with the lock held.
CountPages(t) ==
    /\ ~aborted
    /\ th[t].pc = "check"
    /\ th[t].op = "MaxImageSize"
    /\ \E np \in fzCountPages(native, pages) :
        th' = [th EXCEPT ![t].np = np, ![t].pc = "loop"]
    /\ UNCHANGED <<f, mtx, ret, opened, native, pages, closeLog, closeCalled, aborted>>
    /\ UNCHANGED <<sniff, query, boot>>

\* One turn of the loop of MaxImageSize: page := C.fz_load_page(...pageNumber) and
\* defer C.fz_drop_page(f.ctx, page); the drop waits for the function's return.
LoadNextPage(t) ==
    /\ ~aborted
    /\ th[t].pc = "loop"
    /\ th[t].arg < th[t].np
    /\ th' = [th EXCEPT ![t].acq = Append(@, PageHandles[th[t].arg + 1]),
                        ![t].defers = Append(@, PageHandles[th[t].arg + 1]),
                        ![t].loaded = TRUE,
                        ![t].arg = @ + 1]
    /\ UNCHANGED <<f, mtx, ret, opened, native, pages, closeLog, closeCalled, aborted>>
    /\ UNCHANGED <<sniff, query, boot>>

\* return maxSize, after the last page.
LoopEnd(t) ==
    /\ ~aborted
    /\ th[t].pc = "loop"
    /\ th[t].arg >= th[t].np
    /\ th' = [th EXCEPT ![t].pc = "defer", ![t].res = NoErr]
    /\ UNCHANGED <<f, mtx, ret, opened, native, pages, closeLog, closeCalled, aborted>>
    /\ UNCHANGED <<sniff, query, boot>>

\* A document of one page more than MaxPages, opened by New; the goroutines call
\* the locking operations with its first page and with a page that it does not have.
LockPages == MaxPages + 1

InitLock ==
    /\ Fresh
    /\ LET file == [absOK |-> TRUE, exists |-> TRUE]
       IN  IsReturned("New", file, LockPages, New(file, Success(LockPages)))

LockArgs == {0, LockPages}

\* The steps of goroutine t inside an operation, from the lock on.
Inside(t) ==
    \/ CheckPage(t)
    \/ CountPages(t)
    \/ LoadNextPage(t)
    \/ LoopEnd(t)
    \/ LoadPage(t)
    \/ Acquire(t)
    \/ ReturnOK(t)
    \/ RunDefer(t)

StepLock(t) ==
    \/ \E n \in LockArgs : ImageDPI(t, n)
    \/ \E n \in LockArgs : ImagePNG(t, n)
    \/ \E n \in LockArgs : Links(t, n)
    \/ \E n \in LockArgs : Text(t, n)
    \/ \E n \in LockArgs : HTML(t, n)
    \/ \E n \in LockArgs : SVG(t, n)
    \/ \E n \in LockArgs : Bound(t, n)
    \/ \E n \in LockArgs : ImageReadDPI(t, n)
    \/ MaxImageSize(t)
    \/ Lock(t)
    \/ Inside(t)

NextLock == \E t \in Threads : StepLock(t)

\* Native calls return, so a goroutine inside an operation goes on; sync.Mutex
\* hands the lock to a goroutine that has waited, so a waiting goroutine gets it.
FairLock == \A t \in Threads : SF_vars(Lock(t)) /\ WF_vars(Inside(t))

SpecLock == InitLock /\ [][NextLock]_vars /\ FairLock

\* ------------------------------------------------------------------ claims on the lock

\* The native pages that are loaded and not dropped.
LivePages ==
    {<<t, h>> \in Threads \X (Range(PageHandles) \cup {"page"}) : h \in Held(t)}

\* C26 as claimed: at most one native page of the Document is live at any time, in
\* MaxImageSize too.
C26_OnePageLive == Cardinality(LivePages) <= 1

\* C28: every operation that takes the lock releases it on every path by which it
\* returns, the error returns included, and never tries to take it again while it
\* holds it (the page count is read without the lock being taken); so, native calls
\* returning, a goroutine that waits for the lock gets it and its operation returns.
C28_LockReleased ==
    /\ [](\A t \in Threads :
            /\ th[t].pc = "idle" => mtx # t
            /\ mtx = t =>
                /\ th[t].op \in LockOps
                /\ th[t].pc \in {"check", "loop", "body", "defer"}
                /\ "unlock" \in Range(th[t].defers)
            /\ (th[t].op \in LockOps /\ th[t].pc \in {"check", "loop", "body"}) => mtx = t)
    /\ \A t \in Threads : (th[t].pc = "lock") ~> (th[t].pc = "idle")

\* ImageReadDPI is returning ErrBufferSize, with only the release of the lock left
\* to do, while another goroutine waits for the lock in MaxImageSize.
C28_Witness ==
    \E t, u \in Threads :
        /\ th[t].op = "ImageReadDPI" /\ th[t].res = ErrBufferSize
        /\ th[t].pc = "defer" /\ th[t].defers = <<"unlock">> /\ mtx = t
        /\ th[u].op = "MaxImageSize" /\ th[u].pc = "lock"

\* ------------------------------------------------------------------ claims on the sniffer's indices

\* C27 as claimed: for every buffer, of every length and content, contentType and
\* its helpers never index or slice outside the buffer: contentType never panics.
C27_NeverPanics == Sniffed => sniff.out # "panic"

\* ------------------------------------------------------------------ claims on what an open leaves behind

\* C29 as claimed: on every return of NewFromMemory, a Document that holds a native
\* memory stream also holds the source bytes the stream reads from; the return
\* taken when the format of the buffer is not recognised included.
C29_StreamHoldsData ==
    (opened.fn = "NewFromMemory" /\ ret.fp = "f" /\ ~closeCalled /\ f.stream # NULL)
        => f.data = opened.in

\* C30 as claimed: when New or NewFromMemory returns an error other than
\* ErrNeedsPassword after the native context was created, every native handle it
\* created has been dropped before it returns.
C30_DroppedOnError ==
    (/\ opened.fn \in {"New", "NewFromMemory"}
     /\ ret.fp # "pending"
     /\ ~closeCalled
     /\ ret.err \in {ErrOpenMemory, ErrOpenDocument})
        => /\ native.ctx # "live"
           /\ native.stream # "live"
           /\ native.doc # "live"

====
